---- MODULE Spec2Model ----
(***************************************************************************)
(* A model of the AmiDB storage and transaction core: pager (pager.c),     *)
(* LRU page cache (cache.c), write-ahead log (wal.c), transaction manager  *)
(* (txn.c) and B+Tree (btree.c).                                           *)
(*                                                                         *)
(* The program state is kept in one record per component.  Handlers are    *)
(* pure operators from a machine state `s` (all components) to a result    *)
(* record holding the new machine state; every action applies one handler  *)
(* in full.                                                                *)
(*                                                                         *)
(* A page is modelled by its body interpreted through the B+Tree node      *)
(* layout of btree.c (byte 12 is node_type, then num_keys, parent,         *)
(* next_leaf, keys, values/children); the 12-byte page header (page_num,   *)
(* page_type, checksum) is modelled by the flag `ok`: the page verifies    *)
(* in pager_read_page.                                                     *)
(*                                                                         *)
(* I/O model: file_sync always succeeds (os/file_amiga.c) and a write is   *)
(* on disk when file_write returns.  file_seek/file_write may fail where   *)
(* the handlers test for it: in wal_flush, in the checkpoint writes of     *)
(* txn_commit and in the reloads of txn_abort.  A failed page write        *)
(* leaves the page unchanged, a short WAL write leaves a prefix of whole   *)
(* records.  A crash ends the process; memory is lost, the file stays.     *)
(***************************************************************************)
EXTENDS Integers, Sequences, FiniteSets, TLC

(***************************************************************************)
(* Program constants                                                       *)
(***************************************************************************)
AMIDB_PAGE_SIZE == 4096

WAL_BUFFER_SIZE == 32768

WAL_REGION_START == 12288

WAL_REGION_SIZE == 32 * AMIDB_PAGE_SIZE

WAL_HEADER_SIZE == 24

WAL_PAGE_RECORD_SIZE == WAL_HEADER_SIZE + 4 + AMIDB_PAGE_SIZE

WAL_BEGIN == 1

WAL_COMMIT == 2

WAL_PAGE == 16

DB_FLAG_DIRTY == 1

\* 0x416D6944
AMIDB_MAGIC == 1097689412

CACHE_ENTRY_INVALID == 0

CACHE_ENTRY_CLEAN == 1

CACHE_ENTRY_DIRTY == 2

TXN_STATE_IDLE == 0

TXN_STATE_ACTIVE == 1

AMIDB_OK == 0

AMIDB_ERROR == -1

AMIDB_BUSY == -2

AMIDB_IOERR == -7

AMIDB_FULL == -8

TXN_MAX_DIRTY == 64

BTREE_NODE_INTERNAL == 1

BTREE_NODE_LEAF == 2

(***************************************************************************)
(* Bounds of the model                                                     *)
(***************************************************************************)
\* pages 1..MaxPage exist in the model (AMIDB_MAX_PAGES is 4096)
MaxPage == 3

\* capacity passed to cache_create
CacheCapacity == 2

\* txn_begin is not called once current_txn_id has reached MaxTxn
MaxTxn == 1

\* number of times the database is opened again after a close or a crash
MaxReopen == 1

\* byte 12 of a page is written with a value in 1..MaxByte
MaxByte == 1

\* a session of several transactions calls txn_begin until current_txn_id
\* has reached LogMaxTxn
LogMaxTxn == 2

\* a session of several transactions writes byte 12 of a page with a value
\* in 1..LogMaxByte
LogMaxByte == 2

\* pins one reader holds on a page at a time
PinMax == 2

\* a reader holds at most HoldMax pins on a page of the B+Tree
HoldMax == 1

\* the readers pin the pages 1..HoldMaxPage
HoldMaxPage == 2

\* opens of the file after the first session
OpenMaxReopen == 2

\* pages and cache frames of the runs that fill the WAL buffer
CapMaxPage == 9

\* record headers in the WAL region when recovery starts
ScanSlots == 2

\* page numbers handed to txn_add_dirty_page
AddMaxPage == 65

\* the recovery harness writes at most MaxLog records into the WAL buffer
MaxLog == 3

\* the recovery harness sets wal->current_txn_id to a value in 1..MaxTxnId
MaxTxnId == 2

\* BTREE_ORDER, the number of keys a node holds, is 64 in btree.h; the
\* model scales it down
BTREE_ORDER == 2

\* keys 1..MaxKey are inserted, each with a value in 1..MaxValue
MaxKey == 3

MaxValue == 1

\* pages 1..TreeMaxPage exist in the B+Tree runs
TreeMaxPage == 3

\* capacity passed to cache_create in the B+Tree runs
TreeCacheCapacity == 4

\* txn_begin is not called in the B+Tree runs once current_txn_id has
\* reached TreeMaxTxn
TreeMaxTxn == 2

\* BTREE_MIN_KEYS is BTREE_ORDER / 2 in btree.h
BTREE_MIN_KEYS == BTREE_ORDER \div 2

\* the runs with btree_delete use keys 1..MapMaxKey, values 1..MapMaxValue,
\* pages 1..MapMaxPage and a cache of MapCacheCapacity frames
MapMaxKey == 5

MapMaxValue == 2

MapMaxPage == 9

MapCacheCapacity == 9

\* the runs that fill the dirty list of a transaction use pages
\* 1..DirtyMaxPage and a cache of DirtyCacheCapacity frames; their loading
\* loop inserts DirtyMaxLoad keys, or one key less
DirtyMaxPage == 70

DirtyCacheCapacity == 70

DirtyMaxLoad == 35

\* a run with btree_delete makes at most MapMaxCalls calls of btree_insert
\* and btree_delete after the tree was loaded
MapMaxCalls == 3
DirtyMaxCalls == 2

Pages == 1..MaxPage

Keys == 1..MaxKey

MapKeys == 1..MapMaxKey

(***************************************************************************)
(* Page bodies                                                             *)
(***************************************************************************)
ZeroBody ==
  [node_type |-> 0, num_keys |-> 0, parent |-> 0, next_leaf |-> 0,
   keys |-> <<>>, values |-> <<>>, children |-> <<>>]

\* a page that fails verification in pager_read_page (page_num or checksum)
GarbagePage == [ok |-> FALSE, body |-> ZeroBody]

VARIABLES
  disk,      \* data pages of the file: [Pages -> [ok, body]]
  dhdr,      \* page 0 on disk: header fields and bitmap
  region,    \* WAL region on disk: set of records, each with its offset
  running,   \* TRUE while a session (pager, cache, wal, txn) is open
  hdr,       \* pager->header and pager->bitmap
  entries,   \* cache->entries
  lru,       \* cache->lru_head, cache->lru_tail
  wal,       \* struct wal_context
  txn,       \* struct txn_context
  tree,      \* struct btree
  ghost      \* history: last operation, its result, transaction snapshots

vars ==
  <<disk, dhdr, region, running, hdr, entries, lru, wal, txn, tree, ghost>>

\* the machine state handed through the handlers
Cur ==
  [disk |-> disk, dhdr |-> dhdr, region |-> region, hdr |-> hdr,
   entries |-> entries, lru |-> lru, wal |-> wal, txn |-> txn, tree |-> tree]

Install(s) ==
  /\ disk' = s.disk
  /\ dhdr' = s.dhdr
  /\ region' = s.region
  /\ hdr' = s.hdr
  /\ entries' = s.entries
  /\ lru' = s.lru
  /\ wal' = s.wal
  /\ txn' = s.txn
  /\ tree' = s.tree

Min(S) == CHOOSE x \in S : \A y \in S : x <= y

RECURSIVE SumSizes(_)
SumSizes(recs) ==
  IF recs = <<>> THEN 0 ELSE Head(recs).size + SumSizes(Tail(recs))

SeqToSet(q) == {q[i] : i \in 1..Len(q)}

(***************************************************************************)
(* Pager                                                                   *)
(***************************************************************************)
\* init_file_header and the bitmap of a new file
NewHeader == [page_count |-> 1, flags |-> 0, wal_head |-> 0, wal_tail |-> 0,
              bitmap |-> {0}, magic |-> AMIDB_MAGIC]

\* serialize_header + memcpy of the bitmap + file_write of page 0
WriteHeaderPage(s) == [s EXCEPT !.dhdr = s.hdr]

\* the records of the WAL region hit by a write of file bytes [lo, hi)
ClobberRegion(reg, lo, hi) ==
  LET a == lo - WAL_REGION_START
      b == hi - WAL_REGION_START
      hit(r) == r.off < b /\ a < r.off + r.size
  IN  {r \in reg : ~hit(r)} \cup
      {[r EXCEPT !.crc_ok = FALSE] : r \in {x \in reg : hit(x) /\ x.off < a}}

\* file_write of one whole page at page_num * AMIDB_PAGE_SIZE
FilePutPage(s, page_num, body) ==
  [s EXCEPT !.disk[page_num] = [ok |-> TRUE, body |-> body],
            !.region = ClobberRegion(s.region, page_num * AMIDB_PAGE_SIZE,
                                     (page_num + 1) * AMIDB_PAGE_SIZE)]

PagerWritePage(s, page_num, body) == FilePutPage(s, page_num, body)

PagerReadOk(s, page_num) ==
  /\ page_num < s.hdr.page_count
  /\ page_num \in DOMAIN s.disk
  /\ s.disk[page_num].ok

FreePages(s) == {i \in DOMAIN s.disk : i \notin s.hdr.bitmap}

PagerAllocatePage(s) ==
  IF FreePages(s) = {} THEN [rc |-> -1, page |-> 0, s |-> s]
  ELSE LET i == Min(FreePages(s))
           h1 == [s.hdr EXCEPT !.bitmap = @ \cup {i},
                               !.page_count = IF i >= @ THEN i + 1 ELSE @]
           s1 == WriteHeaderPage([s EXCEPT !.hdr = h1])
       IN  [rc |-> 0, page |-> i, s |-> FilePutPage(s1, i, ZeroBody)]

\* pager_allocate_page with the outcome of the file_write of page 0: the
\* bit is set and page_count raised before the write, a short write
\* returns -1 and leaves *page_num_out alone
PagerAllocatePageIo(s, wrok) ==
  IF FreePages(s) = {} \/ wrok THEN PagerAllocatePage(s)
  ELSE LET i == Min(FreePages(s))
       IN  [rc |-> -1, page |-> 0,
            s |-> [s EXCEPT !.hdr.bitmap = @ \cup {i},
                            !.hdr.page_count = IF i >= @ THEN i + 1 ELSE @]]

PagerFreePage(s, page_num) ==
  IF page_num = 0 \/ page_num \notin s.hdr.bitmap THEN [rc |-> -1, s |-> s]
  ELSE [rc |-> 0,
        s |-> WriteHeaderPage([s EXCEPT !.hdr.bitmap = @ \ {page_num}])]

\* pager_free_page with the outcome of the file_write of page 0: the bit
\* is cleared before the write
PagerFreePageIo(s, page_num, wrok) ==
  IF page_num = 0 \/ page_num \notin s.hdr.bitmap \/ wrok
    THEN PagerFreePage(s, page_num)
  ELSE [rc |-> -1, s |-> [s EXCEPT !.hdr.bitmap = @ \ {page_num}]]

(***************************************************************************)
(* Cache                                                                   *)
(***************************************************************************)
EmptyEntry ==
  [page_num |-> 0, state |-> CACHE_ENTRY_INVALID, pin_count |-> 0,
   txn_id |-> 0, data |-> ZeroBody, lru_prev |-> 0, lru_next |-> 0]

\* cache_create(capacity, pager)
NewCache(capacity) == [f \in 1..capacity |-> EmptyEntry]

\* cache->capacity
Capacity(s) == Cardinality(DOMAIN s.entries)

NewLru == [head |-> 0, tail |-> 0]

\* find_entry: index of the frame holding page_num, 0 for NULL
FindEntry(s, page_num) ==
  LET hits == {f \in DOMAIN s.entries : s.entries[f].state # CACHE_ENTRY_INVALID
                              /\ s.entries[f].page_num = page_num}
  IN  IF hits = {} THEN 0 ELSE Min(hits)

FindFreeEntry(s) ==
  LET free == {f \in DOMAIN s.entries :
                 s.entries[f].state = CACHE_ENTRY_INVALID}
  IN  IF free = {} THEN 0 ELSE Min(free)

RemoveFromLru(s, e) ==
  LET p == s.entries[e].lru_prev
      n == s.entries[e].lru_next
      s1 == IF p # 0 THEN [s EXCEPT !.entries[p].lru_next = n]
                     ELSE [s EXCEPT !.lru.head = n]
      s2 == IF n # 0 THEN [s1 EXCEPT !.entries[n].lru_prev = p]
                     ELSE [s1 EXCEPT !.lru.tail = p]
  IN  [s2 EXCEPT !.entries[e].lru_prev = 0, !.entries[e].lru_next = 0]

AddToLruHead(s, e) ==
  LET h == s.lru.head
      s1 == [s EXCEPT !.entries[e].lru_prev = 0, !.entries[e].lru_next = h]
      s2 == IF h # 0 THEN [s1 EXCEPT !.entries[h].lru_prev = e] ELSE s1
      s3 == [s2 EXCEPT !.lru.head = e]
  IN  IF s3.lru.tail = 0 THEN [s3 EXCEPT !.lru.tail = e] ELSE s3

MoveToLruHead(s, e) ==
  IF s.lru.head = e THEN s ELSE AddToLruHead(RemoveFromLru(s, e), e)

\* what a write-back or an eviction of frame f takes: the page and the
\* txn_id its entry carries at that moment
Written(s, f) ==
  [page_num |-> s.entries[f].page_num, txn_id |-> s.entries[f].txn_id]

\* a walk that takes the first entry outside a transaction, pinned or not
RECURSIVE EvictVictimIgnorePin(_, _, _)
EvictVictimIgnorePin(s, v, fuel) ==
  IF v = 0 \/ fuel = 0 THEN 0
  ELSE IF s.entries[v].txn_id = 0 THEN v
  ELSE EvictVictimIgnorePin(s, s.entries[v].lru_prev, fuel - 1)

\* the walk of evict_lru_page from the tail along lru_prev; `fuel` bounds the
\* walk by the number of frames
RECURSIVE EvictVictim(_, _, _)
EvictVictim(s, v, fuel) ==
  IF v = 0 \/ fuel = 0 THEN 0
  ELSE IF s.entries[v].pin_count = 0 /\ s.entries[v].txn_id = 0 THEN v
  ELSE EvictVictim(s, s.entries[v].lru_prev, fuel - 1)

EvictLruPage(s) ==
  LET v == EvictVictim(s, s.lru.tail, Capacity(s) + 1)
  IN  IF v = 0 THEN [frame |-> 0, s |-> s, wrote |-> {}]
      ELSE LET dirty == s.entries[v].state = CACHE_ENTRY_DIRTY
               s1 == IF dirty
                       THEN PagerWritePage(s, s.entries[v].page_num,
                                           s.entries[v].data)
                       ELSE s
               s2 == RemoveFromLru(s1, v)
           IN  [frame |-> v,
                s |-> [s2 EXCEPT !.entries[v].state = CACHE_ENTRY_INVALID,
                                 !.entries[v].page_num = 0],
                wrote |-> IF dirty THEN {Written(s, v)} ELSE {}]

\* cache_get_page; `evicted` and `wrote` report what eviction did
CacheGetPage(s, page_num) ==
  LET e == FindEntry(s, page_num)
  IN  IF e # 0
        THEN [rc |-> 0, frame |-> e, evicted |-> 0, wrote |-> {},
              s |-> [MoveToLruHead(s, e) EXCEPT
                       !.entries[e].pin_count = (@ + 1) % 256]]
      ELSE
        LET free == FindFreeEntry(s)
            ev == IF free # 0 THEN [frame |-> free, s |-> s, wrote |-> {}]
                              ELSE EvictLruPage(s)
            f == ev.frame
            evd == IF free # 0 THEN 0 ELSE f
        IN  IF f = 0
              THEN [rc |-> -1, frame |-> 0, evicted |-> 0, wrote |-> {},
                    s |-> s]
            ELSE IF ~PagerReadOk(ev.s, page_num)
              THEN [rc |-> -1, frame |-> 0, evicted |-> evd,
                    wrote |-> ev.wrote, s |-> ev.s]
            ELSE
              LET s1 == [ev.s EXCEPT
                           !.entries[f].data = ev.s.disk[page_num].body,
                           !.entries[f].page_num = page_num,
                           !.entries[f].state = CACHE_ENTRY_CLEAN,
                           !.entries[f].pin_count = 1]
              IN  [rc |-> 0, frame |-> f, evicted |-> evd, wrote |-> ev.wrote,
                   s |-> AddToLruHead(s1, f)]

CacheMarkDirty(s, page_num) ==
  LET e == FindEntry(s, page_num)
  IN  IF e = 0 THEN s ELSE [s EXCEPT !.entries[e].state = CACHE_ENTRY_DIRTY]

CacheUnpin(s, page_num) ==
  LET e == FindEntry(s, page_num)
  IN  IF e = 0 THEN s
      ELSE IF s.entries[e].pin_count > 0
        THEN [s EXCEPT !.entries[e].pin_count = @ - 1]
      ELSE s

\* cache_flush without the test of txn_id
RECURSIVE CacheFlushFromTagged(_, _, _)
CacheFlushFromTagged(s, f, wrote) ==
  IF f > Capacity(s) THEN [rc |-> 0, s |-> s, wrote |-> wrote]
  ELSE IF s.entries[f].state = CACHE_ENTRY_DIRTY
    THEN CacheFlushFromTagged(
           [PagerWritePage(s, s.entries[f].page_num, s.entries[f].data)
              EXCEPT !.entries[f].state = CACHE_ENTRY_CLEAN],
           f + 1, wrote \cup {Written(s, f)})
  ELSE CacheFlushFromTagged(s, f + 1, wrote)

\* the loop of cache_flush over frames f..capacity; stops at a failed write
RECURSIVE CacheFlushFrom(_, _, _)
CacheFlushFrom(s, f, wrote) ==
  IF f > Capacity(s) THEN [rc |-> 0, s |-> s, wrote |-> wrote]
  ELSE IF s.entries[f].state = CACHE_ENTRY_DIRTY /\ s.entries[f].txn_id = 0
    THEN CacheFlushFrom(
           [PagerWritePage(s, s.entries[f].page_num, s.entries[f].data)
              EXCEPT !.entries[f].state = CACHE_ENTRY_CLEAN],
           f + 1, wrote \cup {Written(s, f)})
  ELSE CacheFlushFrom(s, f + 1, wrote)

CacheFlush(s) == CacheFlushFrom(s, 1, {})

\* cache_destroy flushes, then releases the frames
CacheDestroy(s) == CacheFlush(s)

(***************************************************************************)
(* WAL                                                                     *)
(***************************************************************************)
\* wal_create
NewWal ==
  [buffer |-> <<>>, current_txn_id |-> 0, txn_start_offset |-> 0,
   wal_head |-> 0, wal_tail |-> 0]

\* wal->buffer_used: the buffer holds the records appended since it was
\* last emptied
BufferUsed(w) == SumSizes(w.buffer)

WalRecord(type, txn_id, page_num, data) ==
  [type |-> type, txn_id |-> txn_id,
   size |-> IF type = WAL_PAGE THEN WAL_PAGE_RECORD_SIZE ELSE WAL_HEADER_SIZE,
   page_num |-> page_num, data |-> data, magic_ok |-> TRUE, crc_ok |-> TRUE]

WalWriteRecord(s, type, page_num, data) ==
  LET rec == WalRecord(type, s.wal.current_txn_id, page_num, data)
  IN  IF BufferUsed(s.wal) + rec.size > WAL_BUFFER_SIZE
        THEN [rc |-> AMIDB_FULL, s |-> s]
      ELSE [rc |-> AMIDB_OK, s |-> [s EXCEPT !.wal.buffer = Append(@, rec)]]

\* the record as it lies in the region at byte offset off
AtOffset(rec, off) ==
  [off |-> off, type |-> rec.type, txn_id |-> rec.txn_id, size |-> rec.size,
   page_num |-> rec.page_num, data |-> rec.data,
   magic_ok |-> rec.magic_ok, crc_ok |-> rec.crc_ok]

\* file_seek(WAL_REGION_START + head) and file_write of the records recs:
\* they replace what the region held there, and what any data page held
\* whose bytes lie in the written range
RegionPut(s, head, recs) ==
  LET n == SumSizes(recs)
      lo == WAL_REGION_START + head
      hi == lo + n
      placed == {AtOffset(recs[i], head + SumSizes(SubSeq(recs, 1, i - 1))) :
                   i \in 1..Len(recs)}
      hitPages == {p \in DOMAIN s.disk : p * AMIDB_PAGE_SIZE < hi
                                 /\ lo < (p + 1) * AMIDB_PAGE_SIZE}
  IN  IF n = 0 THEN s
      ELSE [s EXCEPT
              !.region = ClobberRegion(s.region, lo, hi) \cup placed,
              !.disk = [p \in DOMAIN s.disk |->
                          IF p \in hitPages THEN GarbagePage ELSE s.disk[p]]]

\* wal_flush; file_write puts nwritten whole records on disk, all of them
\* when it succeeds
WalFlush(s, nwritten) ==
  IF s.wal.buffer = <<>> THEN [rc |-> AMIDB_OK, s |-> s]
  ELSE IF s.wal.wal_head + BufferUsed(s.wal) > WAL_REGION_SIZE
    THEN [rc |-> AMIDB_FULL, s |-> s]
  ELSE LET s1 == RegionPut(s, s.wal.wal_head,
                           SubSeq(s.wal.buffer, 1, nwritten))
       IN  IF nwritten < Len(s.wal.buffer)
             THEN [rc |-> AMIDB_IOERR, s |-> s1]
           ELSE [rc |-> AMIDB_OK,
                 s |-> [s1 EXCEPT !.wal.wal_head = @ + BufferUsed(s.wal)]]

WalResetBuffer(s) ==
  [s EXCEPT !.wal.buffer = <<>>, !.wal.wal_head = 0, !.wal.wal_tail = 0]

\* the record whose header starts at offset off; bytes that are no record
\* header do not carry the magic
RecordAt(reg, off) ==
  IF \E r \in reg : r.off = off
    THEN CHOOSE r \in reg : r.off = off
  ELSE [off |-> off, type |-> 0, txn_id |-> 0, size |-> WAL_HEADER_SIZE,
        page_num |-> 0, data |-> ZeroBody, magic_ok |-> FALSE,
        crc_ok |-> FALSE]

\* wal_verify_checksum
WalVerifyChecksum(rec) == rec.size >= WAL_HEADER_SIZE /\ rec.crc_ok

\* pass 1 of wal_recover: the txn_ids of the COMMIT records found
RECURSIVE RecoverPass1(_, _, _, _)
RecoverPass1(reg, head, offset, committed) ==
  IF ~(offset < head /\ offset + WAL_HEADER_SIZE <= WAL_REGION_SIZE)
    THEN committed
  ELSE LET r == RecordAt(reg, offset)
       IN  IF ~r.magic_ok THEN committed
           ELSE IF ~WalVerifyChecksum(r) THEN committed
           ELSE RecoverPass1(reg, head, offset + r.size,
                             IF r.type = WAL_COMMIT
                               THEN committed \cup {r.txn_id}
                               ELSE committed)

\* pass 2 of wal_recover, reading the copy reg of the region and writing
\* pages through the pager
RECURSIVE RecoverPass2(_, _, _, _, _, _)
RecoverPass2(s, reg, head, offset, committed, applied) ==
  IF ~(offset < head /\ offset + WAL_HEADER_SIZE <= WAL_REGION_SIZE)
    THEN [s |-> s, applied |-> applied]
  ELSE LET r == RecordAt(reg, offset)
       IN  IF ~r.magic_ok THEN [s |-> s, applied |-> applied]
           ELSE IF r.txn_id \in committed /\ r.type = WAL_PAGE
             THEN RecoverPass2(PagerWritePage(s, r.page_num, r.data), reg,
                               head, offset + r.size, committed,
                               applied \cup {r.off})
           ELSE RecoverPass2(s, reg, head, offset + r.size, committed,
                             applied)

\* wal_recover on a wal_context whose wal_head is head
WalRecover(s, head) ==
  LET reg == s.region
      committed == RecoverPass1(reg, head, 0, {})
  IN  RecoverPass2(s, reg, head, 0, committed, {})

(***************************************************************************)
(* Transaction manager                                                     *)
(***************************************************************************)
\* txn_create
NewTxn == [state |-> TXN_STATE_IDLE, txn_id |-> 0, dirty_pages |-> <<>>,
           pinned_pages |-> <<>>]

\* txn_begin without the test of the state
TxnBeginAnyState(s) ==
  LET id == s.wal.current_txn_id + 1
      s1 == [s EXCEPT !.wal.current_txn_id = id,
                      !.txn = [state |-> TXN_STATE_ACTIVE, txn_id |-> id,
                               dirty_pages |-> <<>>, pinned_pages |-> <<>>]]
      w == WalWriteRecord(s1, WAL_BEGIN, 0, ZeroBody)
  IN  IF w.rc # AMIDB_OK
        THEN [rc |-> w.rc, s |-> [s1 EXCEPT !.txn.state = TXN_STATE_IDLE]]
      ELSE [rc |-> AMIDB_OK, s |-> w.s]

TxnBegin(s) ==
  IF s.txn.state # TXN_STATE_IDLE THEN [rc |-> AMIDB_BUSY, s |-> s]
  ELSE LET id == s.wal.current_txn_id + 1
           s1 == [s EXCEPT !.wal.current_txn_id = id,
                           !.txn = [state |-> TXN_STATE_ACTIVE, txn_id |-> id,
                                    dirty_pages |-> <<>>,
                                    pinned_pages |-> <<>>]]
           w == WalWriteRecord(s1, WAL_BEGIN, 0, ZeroBody)
       IN  IF w.rc # AMIDB_OK
             THEN [rc |-> w.rc, s |-> [s1 EXCEPT !.txn.state = TXN_STATE_IDLE]]
           ELSE [rc |-> AMIDB_OK, s |-> w.s]

\* an add that does not look for the page in the dirty list
TxnAddDirtyPageNoLookup(s, page_num) ==
  IF Len(s.txn.dirty_pages) >= TXN_MAX_DIRTY
    THEN [rc |-> AMIDB_FULL, s |-> s]
  ELSE [rc |-> AMIDB_OK,
        s |-> [s EXCEPT !.txn.dirty_pages = Append(@, page_num),
                        !.txn.pinned_pages = Append(@, page_num)]]

TxnAddDirtyPage(s, page_num) ==
  IF page_num \in SeqToSet(s.txn.dirty_pages) THEN [rc |-> AMIDB_OK, s |-> s]
  ELSE IF Len(s.txn.dirty_pages) >= TXN_MAX_DIRTY
    THEN [rc |-> AMIDB_FULL, s |-> s]
  ELSE LET s1 == [s EXCEPT !.txn.dirty_pages = Append(@, page_num)]
       IN  IF page_num \in SeqToSet(s1.txn.pinned_pages)
             THEN [rc |-> AMIDB_OK, s |-> s1]
           ELSE IF Len(s1.txn.pinned_pages) >= TXN_MAX_DIRTY
             THEN [rc |-> AMIDB_FULL, s |-> s1]
           ELSE [rc |-> AMIDB_OK,
                 s |-> [s1 EXCEPT !.txn.pinned_pages = Append(@, page_num)]]

\* the unpin loop of txn_commit and txn_abort over pinned_pages[i..]
RECURSIVE UnpinAll(_, _)
UnpinAll(s, pages) ==
  IF pages = <<>> THEN s
  ELSE UnpinAll(CacheUnpin(s, Head(pages)), Tail(pages))

\* txn_abort marking the frames clean without reloading them
RECURSIVE AbortKeepData(_, _, _)
AbortKeepData(s, pages, rdfail) ==
  IF pages = <<>> THEN s
  ELSE LET p == Head(pages)
           e == FindEntry(s, p)
           s1 == IF e = 0 THEN s
                 ELSE IF PagerReadOk(s, p) /\ p \notin rdfail
                   THEN [s EXCEPT !.entries[e].state = CACHE_ENTRY_CLEAN,
                                  !.entries[e].txn_id = 0]
                 ELSE [s EXCEPT !.entries[e].state = CACHE_ENTRY_INVALID,
                                !.entries[e].txn_id = 0]
       IN  AbortKeepData(s1, Tail(pages), rdfail)

\* the reload loop of txn_abort; the read of a page in rdfail fails
RECURSIVE AbortReload(_, _, _)
AbortReload(s, pages, rdfail) ==
  IF pages = <<>> THEN s
  ELSE LET p == Head(pages)
           e == FindEntry(s, p)
           s1 == IF e = 0 THEN s
                 ELSE IF PagerReadOk(s, p) /\ p \notin rdfail
                   THEN [s EXCEPT !.entries[e].data = s.disk[p].body,
                                  !.entries[e].state = CACHE_ENTRY_CLEAN,
                                  !.entries[e].txn_id = 0]
                 ELSE [s EXCEPT !.entries[e].state = CACHE_ENTRY_INVALID,
                                !.entries[e].txn_id = 0]
       IN  AbortReload(s1, Tail(pages), rdfail)

TxnAbort(s, rdfail) ==
  LET s1 == AbortReload(s, s.txn.dirty_pages, rdfail)
      s2 == UnpinAll(s1, s1.txn.pinned_pages)
  IN  [rc |-> AMIDB_OK,
       s |-> [s2 EXCEPT !.txn.dirty_pages = <<>>, !.txn.pinned_pages = <<>>,
                        !.txn.state = TXN_STATE_IDLE,
                        !.wal.buffer = <<>>]]

\* step 1 of txn_commit: one PAGE record per dirty page that is cached dirty
RECURSIVE CommitLogPages(_, _)
CommitLogPages(s, pages) ==
  IF pages = <<>> THEN [rc |-> AMIDB_OK, s |-> s]
  ELSE LET p == Head(pages)
           e == FindEntry(s, p)
       IN  IF e # 0 /\ s.entries[e].state = CACHE_ENTRY_DIRTY
             THEN LET w == WalWriteRecord(s, WAL_PAGE, p, s.entries[e].data)
                  IN  IF w.rc # AMIDB_OK THEN w
                      ELSE CommitLogPages(w.s, Tail(pages))
           ELSE CommitLogPages(s, Tail(pages))

\* txn_commit writing the COMMIT record before the PAGE records
CommitLogCommitFirst(s) ==
  LET c == WalWriteRecord(s, WAL_COMMIT, 0, ZeroBody)
  IN  IF c.rc # AMIDB_OK THEN c
      ELSE CommitLogPages(c.s, c.s.txn.dirty_pages)

\* steps 1 and 2 of txn_commit: the WAL buffer then holds the records of
\* the transaction
CommitLog(s) ==
  LET l1 == CommitLogPages(s, s.txn.dirty_pages)
  IN  IF l1.rc # AMIDB_OK THEN l1
      ELSE WalWriteRecord(l1.s, WAL_COMMIT, 0, ZeroBody)

\* step 4 of txn_commit over the first n dirty pages; the write of a page
\* in wrfail fails
RECURSIVE Checkpoint(_, _, _, _)
Checkpoint(s, pages, n, wrfail) ==
  IF pages = <<>> \/ n = 0 THEN s
  ELSE LET p == Head(pages)
           e == FindEntry(s, p)
           s1 == IF e = 0 \/ p \in wrfail THEN s
                 ELSE [PagerWritePage(s, p, s.entries[e].data) EXCEPT
                         !.entries[e].state = CACHE_ENTRY_CLEAN,
                         !.entries[e].txn_id = 0]
       IN  Checkpoint(s1, Tail(pages), n - 1, wrfail)

\* txn_commit; nwritten records reach the disk in wal_flush, the checkpoint
\* write of the pages in wrfail fails
TxnCommit(s, nwritten, wrfail) ==
  IF s.txn.state # TXN_STATE_ACTIVE THEN [rc |-> AMIDB_ERROR, s |-> s]
  ELSE LET lg == CommitLog(s)
       IN  IF lg.rc # AMIDB_OK
             THEN [rc |-> lg.rc, s |-> TxnAbort(lg.s, {}).s]
           ELSE LET fl == WalFlush(lg.s, nwritten)
                IN  IF fl.rc # AMIDB_OK
                      THEN [rc |-> fl.rc,
                            s |-> [fl.s EXCEPT !.txn.state = TXN_STATE_IDLE]]
                    ELSE
                      LET s4 == Checkpoint(fl.s, fl.s.txn.dirty_pages,
                                           Len(fl.s.txn.dirty_pages), wrfail)
                          s5 == WalResetBuffer(s4)
                          s6 == UnpinAll(s5, s5.txn.pinned_pages)
                      IN  [rc |-> AMIDB_OK,
                           s |-> [s6 EXCEPT !.txn.dirty_pages = <<>>,
                                            !.txn.pinned_pages = <<>>,
                                            !.txn.state = TXN_STATE_IDLE]]

\* what txn_commit has done to the file when the process dies after
\* nwritten records of wal_flush and, once all are written, after the
\* checkpoint of the first npages dirty pages
CommitUntilCrash(s, nwritten, npages) ==
  LET lg == CommitLog(s)
      s3 == RegionPut(lg.s, lg.s.wal.wal_head,
                      SubSeq(lg.s.wal.buffer, 1, nwritten))
  IN  IF nwritten < Len(lg.s.wal.buffer) THEN s3
      ELSE Checkpoint(s3, s3.txn.dirty_pages, npages, {})

(***************************************************************************)
(* B+Tree                                                                  *)
(***************************************************************************)
\* serialize_node: the slots after the keys hold the children of an
\* internal node and the values of any other node
SerializeNode(node) ==
  IF node.node_type = BTREE_NODE_INTERNAL THEN [node EXCEPT !.values = <<>>]
  ELSE [node EXCEPT !.children = <<>>]

\* the first n slots of an array of a page, 0 in a slot that was not written
Pad(q, n) == [i \in 1..n |-> IF i <= Len(q) THEN q[i] ELSE 0]

\* deserialize_node: the slots after the keys are read as children by an
\* internal node and as values by any other node
DeserializeNode(body) ==
  IF body.node_type = BTREE_NODE_INTERNAL THEN [body EXCEPT !.values = <<>>]
  ELSE [body EXCEPT !.children = <<>>,
                    !.values = Pad(body.values, body.num_keys)]

\* node->children[i], 0 where the slot was never written
Child(node, i) ==
  IF i + 1 <= Len(node.children) THEN node.children[i + 1] ELSE 0

\* the binary search of find_key_in_node over keys[left..right]
RECURSIVE BinarySearch(_, _, _, _)
BinarySearch(keys, key, left, right) ==
  IF left > right THEN left
  ELSE LET mid == left + (right - left) \div 2
       IN  IF keys[mid + 1] = key THEN mid
           ELSE IF keys[mid + 1] < key
             THEN BinarySearch(keys, key, mid + 1, right)
           ELSE BinarySearch(keys, key, left, mid - 1)

FindKeyInNode(node, key) == BinarySearch(node.keys, key, 0, node.num_keys - 1)

\* the frame data of the cached page page_num
NodeOf(s, page_num) == DeserializeNode(s.entries[FindEntry(s, page_num)].data)

\* serialize_node into the frame of the cached page page_num
PutNode(s, page_num, node) ==
  [s EXCEPT !.entries[FindEntry(s, page_num)].data = SerializeNode(node)]

\* q with x inserted before the element of index i (from 0)
InsertAt(q, i, x) == SubSeq(q, 1, i) \o <<x>> \o SubSeq(q, i + 1, Len(q))

BtreeMarkPageDirty(s, page_num) ==
  LET s1 == CacheMarkDirty(s, page_num)
  IN  IF ~s.tree.attached THEN s1
      ELSE LET s2 == TxnAddDirtyPage(s1, page_num).s
               e == FindEntry(s2, page_num)
           IN  IF e = 0 THEN s2
               ELSE [s2 EXCEPT !.entries[e].txn_id = s2.txn.txn_id]

\* the child of an internal node that find_leaf_page descends into for key
ChildFor(node, key) ==
  LET index == FindKeyInNode(node, key)
  IN  IF index >= node.num_keys THEN Child(node, node.num_keys)
      ELSE IF key < node.keys[index + 1] THEN Child(node, index)
      ELSE Child(node, index + 1)

RECURSIVE FindLeafFrom(_, _, _, _)
\* one turn of the loop of find_leaf_page, g the result of cache_get_page
FindLeafVisit(g, key, page, fuel) ==
  IF fuel = 0 \/ g.rc # 0 THEN [rc |-> -1, page |-> 0, s |-> g.s]
  ELSE IF NodeOf(g.s, page).node_type = BTREE_NODE_LEAF
    THEN [rc |-> 0, page |-> page, s |-> CacheUnpin(g.s, page)]
  ELSE IF ChildFor(NodeOf(g.s, page), key) = 0
    THEN [rc |-> -1, page |-> 0, s |-> CacheUnpin(g.s, page)]
  ELSE FindLeafFrom(CacheUnpin(g.s, page), key,
                    ChildFor(NodeOf(g.s, page), key), fuel - 1)

\* the descent of find_leaf_page from page; a descent of more than fuel
\* nodes is a cycle
FindLeafFrom(s, key, page, fuel) ==
  FindLeafVisit(CacheGetPage(s, page), key, page, fuel)

FindLeafPage(s, key) ==
  FindLeafFrom(s, key, s.tree.root_page, Cardinality(DOMAIN s.disk) + 1)

\* allocate_node: a page from the pager, written as an empty node
AllocateNode(s, node_type) ==
  LET a == PagerAllocatePage(s)
  IN  IF a.rc # 0 THEN [rc |-> -1, page |-> 0, s |-> s]
      ELSE [rc |-> 0, page |-> a.page,
            s |-> PagerWritePage(a.s, a.page,
                                 [ZeroBody EXCEPT !.node_type = node_type])]

\* btree_create
BtreeCreate(s) ==
  LET a == PagerAllocatePage(s)
  IN  IF a.rc # 0 THEN s
      ELSE [PagerWritePage(a.s, a.page,
                           [ZeroBody EXCEPT !.node_type = BTREE_NODE_LEAF])
              EXCEPT !.tree = [open |-> TRUE, root_page |-> a.page,
                               num_entries |-> 0, attached |-> FALSE]]

\* serialize_node into the frame of page_num, btree_mark_page_dirty,
\* cache_unpin
WriteBack(s, page_num, node) ==
  CacheUnpin(BtreeMarkPageDirty(PutNode(s, page_num, node), page_num),
             page_num)

\* the result of a split that failed
SplitFailed(s) == [rc |-> -1, split_key |-> 0, new_page |-> 0, s |-> s]

\* split_leaf_node that copies the upper keys to the new leaf and leaves
\* old_node.num_keys as it was
SplitLeafMoveKeepCount(gn, leaf_page, old, new_page) ==
  IF gn.rc # 0
    THEN SplitFailed(PagerFreePage(CacheUnpin(gn.s, leaf_page), new_page).s)
  ELSE
    LET split_index == BTREE_ORDER \div 2
        new == [NodeOf(gn.s, new_page) EXCEPT
                  !.keys = SubSeq(old.keys, split_index + 1, old.num_keys),
                  !.values = SubSeq(old.values, split_index + 1, old.num_keys),
                  !.num_keys = old.num_keys - split_index,
                  !.next_leaf = old.next_leaf,
                  !.parent = old.parent]
        old1 == [old EXCEPT !.next_leaf = new_page]
    IN  [rc |-> 0, split_key |-> new.keys[1], new_page |-> new_page,
         s |-> WriteBack(WriteBack(gn.s, leaf_page, old1), new_page, new)]

\* split_leaf_node with both pages pinned: the keys from BTREE_ORDER / 2 on
\* move to the new leaf, which enters the leaf chain after the old one
SplitLeafMove(gn, leaf_page, old, new_page) ==
  IF gn.rc # 0
    THEN SplitFailed(PagerFreePage(CacheUnpin(gn.s, leaf_page), new_page).s)
  ELSE
    LET split_index == BTREE_ORDER \div 2
        new == [NodeOf(gn.s, new_page) EXCEPT
                  !.keys = SubSeq(old.keys, split_index + 1, old.num_keys),
                  !.values = SubSeq(old.values, split_index + 1, old.num_keys),
                  !.num_keys = old.num_keys - split_index,
                  !.next_leaf = old.next_leaf,
                  !.parent = old.parent]
        old1 == [old EXCEPT !.keys = SubSeq(old.keys, 1, split_index),
                            !.values = SubSeq(old.values, 1, split_index),
                            !.num_keys = split_index,
                            !.next_leaf = new_page]
    IN  [rc |-> 0, split_key |-> new.keys[1], new_page |-> new_page,
         s |-> WriteBack(WriteBack(gn.s, leaf_page, old1), new_page, new)]

\* split_leaf_node after allocate_node
SplitLeafAllocated(a, leaf_page, old) ==
  IF a.rc # 0 THEN SplitFailed(CacheUnpin(a.s, leaf_page))
  ELSE SplitLeafMove(CacheGetPage(a.s, a.page), leaf_page, old, a.page)

\* split_leaf_node after cache_get_page of the leaf
SplitLeafPinned(g, leaf_page) ==
  IF g.rc # 0 THEN SplitFailed(g.s)
  ELSE SplitLeafAllocated(AllocateNode(g.s, BTREE_NODE_LEAF), leaf_page,
                          NodeOf(g.s, leaf_page))

SplitLeafNode(s, leaf_page) ==
  SplitLeafPinned(CacheGetPage(s, leaf_page), leaf_page)

\* node.parent = parent on the result g of cache_get_page, mark dirty, unpin
SetParentPinned(g, page_num, parent) ==
  IF g.rc # 0 THEN [rc |-> -1, s |-> g.s]
  ELSE [rc |-> 0,
        s |-> WriteBack(g.s, page_num,
                        [NodeOf(g.s, page_num) EXCEPT !.parent = parent])]

\* cache_get_page of page_num, node.parent = parent, mark dirty, unpin
SetParent(s, page_num, parent) ==
  SetParentPinned(CacheGetPage(s, page_num), page_num, parent)

\* the loop of split_internal_node that sets the parent of the children
\* moved to the new node; a child that cannot be cached is passed over
RECURSIVE Reparent(_, _, _)
Reparent(s, children, new_page) ==
  IF children = <<>> THEN s
  ELSE Reparent(SetParent(s, Head(children), new_page).s, Tail(children),
                new_page)

\* split_internal_node with both pages pinned: the key of index
\* BTREE_ORDER / 2 moves up, the keys and children after it move to the new
\* internal node
SplitInternalMove(gn, internal_page, old, new_page) ==
  IF gn.rc # 0
    THEN SplitFailed(PagerFreePage(CacheUnpin(gn.s, internal_page),
                                   new_page).s)
  ELSE
    LET split_index == BTREE_ORDER \div 2
        new == [NodeOf(gn.s, new_page) EXCEPT
                  !.keys = SubSeq(old.keys, split_index + 2, old.num_keys),
                  !.children = SubSeq(old.children, split_index + 2,
                                      old.num_keys + 1),
                  !.num_keys = old.num_keys - split_index - 1,
                  !.parent = old.parent]
        old1 == [old EXCEPT !.keys = SubSeq(old.keys, 1, split_index),
                            !.children = SubSeq(old.children, 1,
                                                split_index + 1),
                            !.num_keys = split_index]
    IN  [rc |-> 0, split_key |-> old.keys[split_index + 1],
         new_page |-> new_page,
         s |-> WriteBack(WriteBack(Reparent(gn.s, new.children, new_page),
                                   internal_page, old1), new_page, new)]

\* split_internal_node after allocate_node
SplitInternalAllocated(a, internal_page, old) ==
  IF a.rc # 0 THEN SplitFailed(CacheUnpin(a.s, internal_page))
  ELSE SplitInternalMove(CacheGetPage(a.s, a.page), internal_page, old,
                         a.page)

\* split_internal_node after cache_get_page of the node
SplitInternalPinned(g, internal_page) ==
  IF g.rc # 0 THEN SplitFailed(g.s)
  ELSE SplitInternalAllocated(AllocateNode(g.s, BTREE_NODE_INTERNAL),
                              internal_page, NodeOf(g.s, internal_page))

SplitInternalNode(s, internal_page) ==
  SplitInternalPinned(CacheGetPage(s, internal_page), internal_page)

\* the new-root branch of insert_into_parent, r the result of setting the
\* parent of the right page: tree->root_page becomes the new root
NewRootInstalled(r, root_page) ==
  IF r.rc # 0 THEN r
  ELSE [rc |-> 0, s |-> [r.s EXCEPT !.tree.root_page = root_page]]

\* the new-root branch after the parent of the left page was set
NewRootLeftSet(l, root_page, right_page) ==
  IF l.rc # 0 THEN l
  ELSE NewRootInstalled(SetParent(l.s, right_page, root_page), root_page)

\* the new-root branch after cache_get_page of the new root: one key, the
\* two pages as its children
NewRootPinned(g, root_page, left_page, key, right_page) ==
  IF g.rc # 0 THEN [rc |-> -1, s |-> PagerFreePage(g.s, root_page).s]
  ELSE NewRootLeftSet(
         SetParent(WriteBack(g.s, root_page,
                             [NodeOf(g.s, root_page) EXCEPT
                                !.num_keys = 1, !.keys = <<key>>,
                                !.children = <<left_page, right_page>>,
                                !.parent = 0]),
                   left_page, root_page),
         root_page, right_page)

\* the new-root branch after allocate_node
NewRootAllocated(a, left_page, key, right_page) ==
  IF a.rc # 0 THEN [rc |-> -1, s |-> a.s]
  ELSE NewRootPinned(CacheGetPage(a.s, a.page), a.page, left_page, key,
                     right_page)

\* the branch of insert_into_parent for a left page without parent: a new
\* root with the two pages as children
NewRoot(s, left_page, key, right_page) ==
  NewRootAllocated(AllocateNode(s, BTREE_NODE_INTERNAL), left_page, key,
                   right_page)

\* the end of insert_into_parent on the pinned parent: key and right_page
\* enter the parent, the right page gets its parent
AddToParent(s, parent_page, key, right_page) ==
  LET parent_node == NodeOf(s, parent_page)
      index == FindKeyInNode(parent_node, key)
  IN  SetParent(WriteBack(s, parent_page,
                          [parent_node EXCEPT
                             !.keys = InsertAt(@, index, key),
                             !.children = InsertAt(@, index + 1, right_page),
                             !.num_keys = @ + 1]),
                right_page, parent_page)

\* insert_into_parent after a split of the parent, gp the result of
\* cache_get_page of the parent the left page has now
ParentSplitAdd(gp, parent_page, key, right_page) ==
  IF gp.rc # 0 THEN [rc |-> -1, s |-> gp.s]
  ELSE AddToParent(gp.s, parent_page, key, right_page)

\* insert_into_parent after a split of the parent, gl the result of
\* cache_get_page of the left page: its parent is read again
ParentSplitReread(gl, left_page, key, right_page) ==
  IF gl.rc # 0 THEN [rc |-> -1, s |-> gl.s]
  ELSE ParentSplitAdd(CacheGetPage(CacheUnpin(gl.s, left_page),
                                   NodeOf(gl.s, left_page).parent),
                      NodeOf(gl.s, left_page).parent, key, right_page)

\* insert_into_parent after the recursive call that put the split key of
\* the parent into the grandparent
ParentSplitUp(up, left_page, key, right_page) ==
  IF up.rc # 0 THEN [rc |-> -1, s |-> up.s]
  ELSE ParentSplitReread(CacheGetPage(up.s, left_page), left_page, key,
                         right_page)

RECURSIVE InsertIntoParent(_, _, _, _)
\* insert_into_parent after split_internal_node of a full parent
ParentSplit(sp, left_page, parent_page, key, right_page) ==
  IF sp.rc # 0 THEN [rc |-> -1, s |-> sp.s]
  ELSE ParentSplitUp(InsertIntoParent(sp.s, parent_page, sp.split_key,
                                      sp.new_page),
                     left_page, key, right_page)

\* insert_into_parent after cache_get_page of the parent
ParentPinned(gp, left_page, parent_page, key, right_page) ==
  IF gp.rc # 0 THEN [rc |-> -1, s |-> gp.s]
  ELSE IF NodeOf(gp.s, parent_page).num_keys < BTREE_ORDER
    THEN AddToParent(gp.s, parent_page, key, right_page)
  ELSE ParentSplit(SplitInternalNode(CacheUnpin(gp.s, parent_page),
                                     parent_page),
                   left_page, parent_page, key, right_page)

\* insert_into_parent after cache_get_page of the left page
LeftPinned(g, left_page, key, right_page) ==
  IF g.rc # 0 THEN [rc |-> -1, s |-> g.s]
  ELSE IF NodeOf(g.s, left_page).parent = 0
    THEN NewRoot(CacheUnpin(g.s, left_page), left_page, key, right_page)
  ELSE ParentPinned(CacheGetPage(CacheUnpin(g.s, left_page),
                                 NodeOf(g.s, left_page).parent),
                    left_page, NodeOf(g.s, left_page).parent, key,
                    right_page)

InsertIntoParent(s, left_page, key, right_page) ==
  LeftPinned(CacheGetPage(s, left_page), left_page, key, right_page)

\* the end of btree_insert on the pinned leaf: update or insert, serialize,
\* mark dirty, unpin
LeafPut(s, leaf_page, key, value) ==
  LET node == NodeOf(s, leaf_page)
      index == FindKeyInNode(node, key)
  IN  [rc |-> 0,
       s |-> IF index < node.num_keys /\ node.keys[index + 1] = key
               THEN WriteBack(s, leaf_page,
                              [node EXCEPT !.values[index + 1] = value])
             ELSE WriteBack([s EXCEPT !.tree.num_entries = @ + 1], leaf_page,
                            [node EXCEPT
                               !.keys = InsertAt(@, index, key),
                               !.values = InsertAt(@, index, value),
                               !.num_keys = @ + 1])]

\* btree_insert after a split, g the result of cache_get_page of the leaf
\* found again
InsertRepinned(g, page, key, value) ==
  IF g.rc # 0 THEN [rc |-> -1, s |-> g.s]
  ELSE LeafPut(g.s, page, key, value)

\* btree_insert after a split, f the result of the second find_leaf_page
InsertRefound(f, key, value) ==
  IF f.rc # 0 THEN [rc |-> -1, s |-> f.s]
  ELSE InsertRepinned(CacheGetPage(f.s, f.page), f.page, key, value)

\* btree_insert after insert_into_parent
InsertPromoted(ip, key, value) ==
  IF ip.rc # 0 THEN [rc |-> -1, s |-> ip.s]
  ELSE InsertRefound(FindLeafPage(ip.s, key), key, value)

\* btree_insert after split_leaf_node of a full leaf
InsertSplit(sp, page, key, value) ==
  IF sp.rc # 0 THEN [rc |-> -1, s |-> sp.s]
  ELSE InsertPromoted(InsertIntoParent(sp.s, page, sp.split_key, sp.new_page),
                      key, value)

\* btree_insert after cache_get_page of the leaf
InsertPinned(g, page, key, value) ==
  IF g.rc # 0 THEN [rc |-> -1, s |-> g.s]
  ELSE IF NodeOf(g.s, page).num_keys < BTREE_ORDER
    THEN LeafPut(g.s, page, key, value)
  ELSE InsertSplit(SplitLeafNode(CacheUnpin(g.s, page), page), page, key,
                   value)

\* btree_insert after find_leaf_page
InsertFound(f, key, value) ==
  IF f.rc # 0 THEN [rc |-> -1, s |-> f.s]
  ELSE InsertPinned(CacheGetPage(f.s, f.page), f.page, key, value)

BtreeInsert(s, key, value) == InsertFound(FindLeafPage(s, key), key, value)

\* btree_search after cache_get_page of the leaf
SearchPinned(g, page, key) ==
  LET node == NodeOf(g.s, page)
      index == FindKeyInNode(node, key)
  IN  IF g.rc # 0 THEN [rc |-> -1, value |-> 0, s |-> g.s]
      ELSE IF index < node.num_keys /\ node.keys[index + 1] = key
        THEN [rc |-> 0, value |-> node.values[index + 1],
              s |-> CacheUnpin(g.s, page)]
      ELSE [rc |-> -1, value |-> 0, s |-> CacheUnpin(g.s, page)]

\* btree_search after find_leaf_page
SearchFound(f, key) ==
  IF f.rc # 0 THEN [rc |-> -1, value |-> 0, s |-> f.s]
  ELSE SearchPinned(CacheGetPage(f.s, f.page), f.page, key)

BtreeSearch(s, key) == SearchFound(FindLeafPage(s, key), key)

\* q without the element of index i (from 0)
RemoveAt(q, i) == SubSeq(q, 1, i) \o SubSeq(q, i + 2, Len(q))

\* children[0..num_keys] of a node
ChildrenOf(node) == Pad(node.children, node.num_keys + 1)

\* the three nodes of a borrow written back in the order of the code: the
\* node, the sibling, the parent
BorrowWriteBack(s, page_num, node, sibling_page, sibling, parent_page, parent) ==
  [rc |-> 0,
   s |-> WriteBack(WriteBack(WriteBack(s, page_num, node), sibling_page,
                             sibling), parent_page, parent)]

\* borrow_from_sibling with parent, right sibling and node pinned: the first
\* key of the sibling moves to the end of the node
BorrowRightMove(gn, parent, sibling, sibling_page, page_num, parent_page, child_index) ==
  IF gn.rc # 0
    THEN [rc |-> -1,
          s |-> CacheUnpin(CacheUnpin(gn.s, sibling_page), parent_page)]
  ELSE IF NodeOf(gn.s, page_num).node_type = BTREE_NODE_LEAF
    THEN BorrowWriteBack(gn.s, page_num,
           [NodeOf(gn.s, page_num) EXCEPT
              !.keys = Append(@, sibling.keys[1]),
              !.values = Append(@, Pad(sibling.values, 1)[1]),
              !.num_keys = @ + 1],
           sibling_page,
           [sibling EXCEPT !.keys = Tail(@),
                           !.values = Tail(Pad(@, sibling.num_keys)),
                           !.num_keys = @ - 1],
           parent_page,
           [parent EXCEPT !.keys[child_index + 1] = sibling.keys[2]])
  ELSE BorrowWriteBack(gn.s, page_num,
         [NodeOf(gn.s, page_num) EXCEPT
            !.keys = Append(@, parent.keys[child_index + 1]),
            !.children = Append(ChildrenOf(NodeOf(gn.s, page_num)),
                                Child(sibling, 0)),
            !.num_keys = @ + 1],
         sibling_page,
         [sibling EXCEPT !.keys = Tail(@),
                         !.children = Tail(ChildrenOf(sibling)),
                         !.num_keys = @ - 1],
         parent_page,
         [parent EXCEPT !.keys[child_index + 1] = sibling.keys[1]])

\* borrow_from_sibling with parent, left sibling and node pinned: the last
\* key of the sibling moves to the front of the node
BorrowLeftMove(gn, parent, sibling, sibling_page, page_num, parent_page, child_index) ==
  IF gn.rc # 0
    THEN [rc |-> -1,
          s |-> CacheUnpin(CacheUnpin(gn.s, sibling_page), parent_page)]
  ELSE IF NodeOf(gn.s, page_num).node_type = BTREE_NODE_LEAF
    THEN BorrowWriteBack(gn.s, page_num,
           [NodeOf(gn.s, page_num) EXCEPT
              !.keys = <<sibling.keys[sibling.num_keys]>> \o @,
              !.values = <<Pad(sibling.values,
                               sibling.num_keys)[sibling.num_keys]>> \o @,
              !.num_keys = @ + 1],
           sibling_page,
           [sibling EXCEPT
              !.keys = SubSeq(@, 1, sibling.num_keys - 1),
              !.values = SubSeq(Pad(@, sibling.num_keys), 1,
                                sibling.num_keys - 1),
              !.num_keys = @ - 1],
           parent_page,
           [parent EXCEPT !.keys[child_index] = sibling.keys[sibling.num_keys]])
  ELSE BorrowWriteBack(gn.s, page_num,
         [NodeOf(gn.s, page_num) EXCEPT
            !.keys = <<parent.keys[child_index]>> \o @,
            !.children = <<Child(sibling, sibling.num_keys)>> \o
                         ChildrenOf(NodeOf(gn.s, page_num)),
            !.num_keys = @ + 1],
         sibling_page,
         [sibling EXCEPT
            !.keys = SubSeq(@, 1, sibling.num_keys - 1),
            !.children = SubSeq(ChildrenOf(sibling), 1, sibling.num_keys),
            !.num_keys = @ - 1],
         parent_page,
         [parent EXCEPT !.keys[child_index] = sibling.keys[sibling.num_keys]])

\* borrow_from_sibling after cache_get_page of the left sibling
BorrowLeftPinned(gs, parent, sibling_page, page_num, parent_page, child_index) ==
  IF gs.rc # 0 THEN [rc |-> -1, s |-> CacheUnpin(gs.s, parent_page)]
  ELSE IF NodeOf(gs.s, sibling_page).num_keys > BTREE_MIN_KEYS
    THEN BorrowLeftMove(CacheGetPage(gs.s, page_num), parent,
                        NodeOf(gs.s, sibling_page), sibling_page, page_num,
                        parent_page, child_index)
  ELSE [rc |-> -1,
        s |-> CacheUnpin(CacheUnpin(gs.s, sibling_page), parent_page)]

\* borrow_from_sibling once the right sibling gave nothing
BorrowTryLeft(s, parent, page_num, parent_page, child_index) ==
  IF child_index > 0
    THEN BorrowLeftPinned(CacheGetPage(s, Child(parent, child_index - 1)),
                          parent, Child(parent, child_index - 1), page_num,
                          parent_page, child_index)
  ELSE [rc |-> -1, s |-> CacheUnpin(s, parent_page)]

\* borrow_from_sibling after cache_get_page of the right sibling
BorrowRightPinned(gs, parent, sibling_page, page_num, parent_page, child_index) ==
  IF gs.rc # 0 THEN [rc |-> -1, s |-> CacheUnpin(gs.s, parent_page)]
  ELSE IF NodeOf(gs.s, sibling_page).num_keys > BTREE_MIN_KEYS
    THEN BorrowRightMove(CacheGetPage(gs.s, page_num), parent,
                         NodeOf(gs.s, sibling_page), sibling_page, page_num,
                         parent_page, child_index)
  ELSE BorrowTryLeft(CacheUnpin(gs.s, sibling_page), parent, page_num,
                     parent_page, child_index)

\* borrow_from_sibling after cache_get_page of the parent
BorrowParentPinned(gp, page_num, parent_page, child_index) ==
  IF gp.rc # 0 THEN [rc |-> -1, s |-> gp.s]
  ELSE IF child_index < NodeOf(gp.s, parent_page).num_keys
    THEN BorrowRightPinned(
           CacheGetPage(gp.s, Child(NodeOf(gp.s, parent_page),
                                    child_index + 1)),
           NodeOf(gp.s, parent_page),
           Child(NodeOf(gp.s, parent_page), child_index + 1), page_num,
           parent_page, child_index)
  ELSE BorrowTryLeft(gp.s, NodeOf(gp.s, parent_page), page_num, parent_page,
                     child_index)

BorrowFromSibling(s, page_num, parent_page, child_index) ==
  BorrowParentPinned(CacheGetPage(s, parent_page), page_num, parent_page,
                     child_index)

\* the left node of merge_with_sibling after the merge: a leaf takes the
\* keys and values of the right leaf and its place in the leaf chain, an
\* internal node takes the separator of the parent and the keys and children
\* of the right node
MergedNode(left, right, parent, separator_index) ==
  IF left.node_type = BTREE_NODE_LEAF
    THEN [left EXCEPT
            !.keys = @ \o Pad(right.keys, right.num_keys),
            !.values = @ \o Pad(right.values, right.num_keys),
            !.num_keys = @ + right.num_keys,
            !.next_leaf = right.next_leaf]
  ELSE [left EXCEPT
          !.keys = @ \o <<Pad(parent.keys, separator_index + 1)
                            [separator_index + 1]>>
                     \o Pad(right.keys, right.num_keys),
          !.children = ChildrenOf(left) \o ChildrenOf(right),
          !.num_keys = @ + 1 + right.num_keys]

\* merge_with_sibling with the three nodes pinned: the left node is written
\* back, the right page is freed, the parent loses the separator and the
\* pointer to the right page
MergeMove(s, left_page, right_page, parent_page, separator_index) ==
  [rc |-> 0,
   s |-> WriteBack(
           PagerFreePage(
             CacheUnpin(
               WriteBack(s, left_page,
                         MergedNode(NodeOf(s, left_page),
                                    NodeOf(s, right_page),
                                    NodeOf(s, parent_page), separator_index)),
               right_page),
             right_page).s,
           parent_page,
           [NodeOf(s, parent_page) EXCEPT
              !.keys = RemoveAt(@, separator_index),
              !.children = RemoveAt(ChildrenOf(NodeOf(s, parent_page)),
                                    separator_index + 1),
              !.num_keys = @ - 1])]

\* merge_with_sibling after cache_get_page of the parent
MergeParentPinned(gp, left_page, right_page, parent_page, separator_index) ==
  IF gp.rc # 0
    THEN [rc |-> -1, s |-> CacheUnpin(CacheUnpin(gp.s, left_page), right_page)]
  ELSE MergeMove(gp.s, left_page, right_page, parent_page, separator_index)

\* merge_with_sibling after cache_get_page of the right node
MergeRightPinned(gr, left_page, right_page, parent_page, separator_index) ==
  IF gr.rc # 0 THEN [rc |-> -1, s |-> CacheUnpin(gr.s, left_page)]
  ELSE MergeParentPinned(CacheGetPage(gr.s, parent_page), left_page,
                         right_page, parent_page, separator_index)

\* merge_with_sibling after cache_get_page of the left node
MergeLeftPinned(gl, left_page, right_page, parent_page, separator_index) ==
  IF gl.rc # 0 THEN [rc |-> -1, s |-> gl.s]
  ELSE MergeRightPinned(CacheGetPage(gl.s, right_page), left_page, right_page,
                        parent_page, separator_index)

MergeWithSibling(s, left_page, right_page, parent_page, separator_index) ==
  MergeLeftPinned(CacheGetPage(s, left_page), left_page, right_page,
                  parent_page, separator_index)

\* the index of page_num among the children of parent, -1 if it is not there
ChildIndex(parent, page_num) ==
  LET found == {i \in 0..parent.num_keys : Child(parent, i) = page_num}
  IN  IF found = {} THEN -1 ELSE Min(found)

\* the root case of rebalance_after_delete without node.parent = 0
RootCollapseKeepParent(g, page_num, new_root) ==
  IF g.rc # 0 THEN [rc |-> -1, s |-> g.s]
  ELSE [rc |-> 0,
        s |-> PagerFreePage(CacheUnpin(g.s, new_root), page_num).s]

\* rebalance_after_delete for an empty internal root, g the result of
\* cache_get_page of its only child: the child becomes the root and the old
\* root page is freed
RootCollapse(g, page_num, new_root) ==
  IF g.rc # 0 THEN [rc |-> -1, s |-> g.s]
  ELSE [rc |-> 0,
        s |-> PagerFreePage(
                WriteBack(g.s, new_root,
                          [NodeOf(g.s, new_root) EXCEPT !.parent = 0]),
                page_num).s]

RECURSIVE RebalanceAfterDelete(_, _)
\* rebalance_after_delete after a merge: the parent is rebalanced; a merge
\* that failed ends the rebalancing with success
RebalanceMerged(m, parent_page) ==
  IF m.rc = 0 THEN RebalanceAfterDelete(m.s, parent_page)
  ELSE [rc |-> 0, s |-> m.s]

\* rebalance_after_delete after borrow_from_sibling: without a borrow the
\* node is merged with its left sibling, the first child with its right one
RebalanceBorrowed(b, parent, page_num, parent_page, child_index) ==
  IF b.rc = 0 THEN [rc |-> 0, s |-> b.s]
  ELSE IF child_index > 0
    THEN RebalanceMerged(
           MergeWithSibling(b.s, Child(parent, child_index - 1), page_num,
                            parent_page, child_index - 1),
           parent_page)
  ELSE RebalanceMerged(
         MergeWithSibling(b.s, page_num, Child(parent, child_index + 1),
                          parent_page, child_index),
         parent_page)

\* rebalance_after_delete after cache_get_page of the parent
RebalanceChild(gp, page_num, parent_page) ==
  IF gp.rc # 0 THEN [rc |-> -1, s |-> gp.s]
  ELSE IF ChildIndex(NodeOf(gp.s, parent_page), page_num) < 0
    THEN [rc |-> -1, s |-> CacheUnpin(gp.s, parent_page)]
  ELSE RebalanceBorrowed(
         BorrowFromSibling(CacheUnpin(gp.s, parent_page), page_num,
                           parent_page,
                           ChildIndex(NodeOf(gp.s, parent_page), page_num)),
         NodeOf(gp.s, parent_page), page_num, parent_page,
         ChildIndex(NodeOf(gp.s, parent_page), page_num))

\* rebalance_after_delete after cache_get_page of the node
RebalancePinned(g, page_num) ==
  IF g.rc # 0 THEN [rc |-> -1, s |-> g.s]
  ELSE IF NodeOf(g.s, page_num).num_keys >= BTREE_MIN_KEYS
    THEN [rc |-> 0, s |-> CacheUnpin(g.s, page_num)]
  ELSE IF NodeOf(g.s, page_num).parent # 0
    THEN RebalanceChild(CacheGetPage(CacheUnpin(g.s, page_num),
                                     NodeOf(g.s, page_num).parent),
                        page_num, NodeOf(g.s, page_num).parent)
  ELSE IF /\ NodeOf(g.s, page_num).num_keys = 0
          /\ NodeOf(g.s, page_num).node_type = BTREE_NODE_INTERNAL
    THEN RootCollapse(
           CacheGetPage([CacheUnpin(g.s, page_num) EXCEPT
                           !.tree.root_page = Child(NodeOf(g.s, page_num), 0)],
                        Child(NodeOf(g.s, page_num), 0)),
           page_num, Child(NodeOf(g.s, page_num), 0))
  ELSE [rc |-> 0, s |-> CacheUnpin(g.s, page_num)]

RebalanceAfterDelete(s, page_num) ==
  RebalancePinned(CacheGetPage(s, page_num), page_num)

\* btree_delete on the pinned leaf: the entry leaves the leaf, which is
\* written back and rebalanced; the uint32_t num_entries is kept as its
\* two's-complement reading, -1 standing for 4294967295
LeafRemove(s, page, index) ==
  RebalanceAfterDelete(
    WriteBack([s EXCEPT !.tree.num_entries = @ - 1], page,
              [NodeOf(s, page) EXCEPT !.keys = RemoveAt(@, index),
                                      !.values = RemoveAt(@, index),
                                      !.num_keys = @ - 1]),
    page)

\* btree_delete after cache_get_page of the leaf
DeletePinned(g, page, key) ==
  IF g.rc # 0 THEN [rc |-> -1, s |-> g.s]
  ELSE IF \/ FindKeyInNode(NodeOf(g.s, page), key) >= NodeOf(g.s, page).num_keys
          \/ NodeOf(g.s, page).keys[FindKeyInNode(NodeOf(g.s, page), key) + 1]
               # key
    THEN [rc |-> -1, s |-> CacheUnpin(g.s, page)]
  ELSE LeafRemove(g.s, page, FindKeyInNode(NodeOf(g.s, page), key))

\* btree_delete after find_leaf_page
DeleteFound(f, key) ==
  IF f.rc # 0 THEN [rc |-> -1, s |-> f.s]
  ELSE DeletePinned(CacheGetPage(f.s, f.page), f.page, key)

BtreeDelete(s, key) == DeleteFound(FindLeafPage(s, key), key)

\* a cursor after memset
NoCursor == [valid |-> 0, current_page |-> 0, current_index |-> 0,
             key |-> 0, value |-> 0]

\* the cursor set on the first entry of the leaf on page, invalid when the
\* leaf is empty
CursorOnLeaf(node, page) ==
  IF node.num_keys > 0
    THEN [valid |-> 1, current_page |-> page, current_index |-> 0,
          key |-> node.keys[1], value |-> node.values[1]]
  ELSE [NoCursor EXCEPT !.current_page = page]

RECURSIVE LeftmostFrom(_, _, _)
\* one turn of the loop of btree_cursor_first, g the result of
\* cache_get_page
LeftmostVisit(g, page, fuel) ==
  IF fuel = 0 \/ g.rc # 0 THEN [rc |-> -1, cursor |-> NoCursor, s |-> g.s]
  ELSE IF NodeOf(g.s, page).node_type = BTREE_NODE_LEAF
    THEN [rc |-> 0, cursor |-> CursorOnLeaf(NodeOf(g.s, page), page),
          s |-> CacheUnpin(g.s, page)]
  ELSE IF Child(NodeOf(g.s, page), 0) = 0
    THEN [rc |-> -1, cursor |-> NoCursor, s |-> CacheUnpin(g.s, page)]
  ELSE LeftmostFrom(CacheUnpin(g.s, page), Child(NodeOf(g.s, page), 0),
                    fuel - 1)

\* the descent of btree_cursor_first along children[0]; a descent of more
\* than fuel nodes is a cycle
LeftmostFrom(s, page, fuel) ==
  LeftmostVisit(CacheGetPage(s, page), page, fuel)

BtreeCursorFirst(s) ==
  LeftmostFrom(s, s.tree.root_page, Cardinality(DOMAIN s.disk) + 1)

\* btree_cursor_next after cache_get_page of the next leaf: an empty leaf
\* ends the iteration
CursorNextLeaf(g, cursor, next_leaf) ==
  IF g.rc # 0
    THEN [rc |-> -1,
          cursor |-> [cursor EXCEPT !.valid = 0, !.current_page = next_leaf,
                                    !.current_index = 0],
          s |-> g.s]
  ELSE IF NodeOf(g.s, next_leaf).num_keys > 0
    THEN [rc |-> 0,
          cursor |-> [cursor EXCEPT
                        !.current_page = next_leaf, !.current_index = 0,
                        !.key = NodeOf(g.s, next_leaf).keys[1],
                        !.value = NodeOf(g.s, next_leaf).values[1]],
          s |-> CacheUnpin(g.s, next_leaf)]
  ELSE [rc |-> -1,
        cursor |-> [cursor EXCEPT !.valid = 0, !.current_page = next_leaf,
                                  !.current_index = 0],
        s |-> CacheUnpin(g.s, next_leaf)]

\* btree_cursor_next after cache_get_page of the current leaf
CursorNextPinned(g, cursor) ==
  IF g.rc # 0 THEN [rc |-> -1, cursor |-> cursor, s |-> g.s]
  ELSE IF cursor.current_index + 1 < NodeOf(g.s, cursor.current_page).num_keys
    THEN [rc |-> 0,
          cursor |-> [cursor EXCEPT
                        !.current_index = @ + 1,
                        !.key = NodeOf(g.s, cursor.current_page)
                                  .keys[cursor.current_index + 2],
                        !.value = NodeOf(g.s, cursor.current_page)
                                    .values[cursor.current_index + 2]],
          s |-> CacheUnpin(g.s, cursor.current_page)]
  ELSE IF NodeOf(g.s, cursor.current_page).next_leaf # 0
    THEN CursorNextLeaf(
           CacheGetPage(CacheUnpin(g.s, cursor.current_page),
                        NodeOf(g.s, cursor.current_page).next_leaf),
           cursor, NodeOf(g.s, cursor.current_page).next_leaf)
  ELSE [rc |-> -1,
        cursor |-> [cursor EXCEPT !.valid = 0, !.current_index = @ + 1],
        s |-> CacheUnpin(g.s, cursor.current_page)]

BtreeCursorNext(s, cursor) ==
  IF cursor.valid = 0 THEN [rc |-> -1, cursor |-> cursor, s |-> s]
  ELSE CursorNextPinned(CacheGetPage(s, cursor.current_page), cursor)

RECURSIVE WalkFrom(_, _)
\* the loop of the tests over a cursor, c the result of btree_cursor_first
\* or btree_cursor_next: the keys btree_cursor_get returns while the cursor
\* is valid and btree_cursor_next succeeds
WalkFrom(c, fuel) ==
  IF c.rc # 0 \/ c.cursor.valid = 0 \/ fuel = 0 THEN <<>>
  ELSE <<c.cursor.key>> \o WalkFrom(BtreeCursorNext(c.s, c.cursor), fuel - 1)

\* the keys an iteration over the whole tree returns; an iteration of more
\* than 2 * MapMaxKey + 1 entries does not end
CursorWalk(s) == WalkFrom(BtreeCursorFirst(s), 2 * MapMaxKey + 2)

\* btree_open on the pager and cache of the session
BtreeOpen(s, root_page) ==
  [s EXCEPT !.tree = [open |-> TRUE, root_page |-> root_page,
                      num_entries |-> 0, attached |-> FALSE]]

(***************************************************************************)
(* Sessions: pager_open / pager_close with the objects built on the pager  *)
(***************************************************************************)
NoTree == [open |-> FALSE, root_page |-> 0, num_entries |-> 0,
           attached |-> FALSE]

\* pager_open that clears the dirty flag after the recovery and leaves
\* wal_head and wal_tail in the header
PagerOpenKeepHead(s) ==
  LET s0 == [s EXCEPT !.hdr = s.dhdr, !.entries = NewCache(Capacity(s)),
                      !.lru = NewLru,
                      !.wal = NewWal, !.txn = NewTxn, !.tree = NoTree]
  IN  IF s0.hdr.flags = DB_FLAG_DIRTY
        THEN LET r == WalRecover(s0, s0.hdr.wal_head)
             IN  [s |-> WriteHeaderPage([r.s EXCEPT !.hdr.flags = 0]),
                  recovered |-> TRUE, applied |-> r.applied]
      ELSE [s |-> s0, recovered |-> FALSE, applied |-> {}]

\* pager_open of a writable, existing file with a valid magic, followed by
\* cache_create, wal_create and txn_create
PagerOpen(s) ==
  LET s0 == [s EXCEPT !.hdr = s.dhdr, !.entries = NewCache(Capacity(s)),
                      !.lru = NewLru,
                      !.wal = NewWal, !.txn = NewTxn, !.tree = NoTree]
  IN  IF s0.hdr.flags = DB_FLAG_DIRTY
        THEN LET r == WalRecover(s0, s0.hdr.wal_head)
             IN  [s |-> WriteHeaderPage([r.s EXCEPT !.hdr.flags = 0,
                                                    !.hdr.wal_head = 0,
                                                    !.hdr.wal_tail = 0]),
                  recovered |-> TRUE, applied |-> r.applied]
      ELSE [s |-> s0, recovered |-> FALSE, applied |-> {}]

\* pager_open of a path in either mode, on the file as it is on disk: the
\* writable open reads 64 bytes and takes a file without the magic for a
\* new one, which it initialises and marks dirty; the read-only open reads
\* the header page, checks the magic and runs no recovery
PagerOpenFile(s, read_only) ==
  IF read_only
    THEN IF s.dhdr.magic # AMIDB_MAGIC
           THEN [rc |-> -1, s |-> s, is_new_file |-> FALSE]
         ELSE [rc |-> 0, s |-> [s EXCEPT !.hdr = s.dhdr],
               is_new_file |-> FALSE]
  ELSE IF s.dhdr.magic # AMIDB_MAGIC
    THEN [rc |-> 0, is_new_file |-> TRUE,
          s |-> WriteHeaderPage(
                  [s EXCEPT !.hdr = [NewHeader EXCEPT
                                       !.flags = DB_FLAG_DIRTY]])]
  ELSE [rc |-> 0, s |-> PagerOpen(s).s, is_new_file |-> FALSE]

PagerClose(s) ==
  IF s.hdr.wal_head = 0
    THEN WriteHeaderPage([s EXCEPT !.hdr.flags = 0])
  ELSE s

\* txn_destroy, wal_destroy, cache_destroy, pager_close
CloseSession(s) ==
  LET s1 == IF s.txn.state = TXN_STATE_ACTIVE THEN TxnAbort(s, {}).s ELSE s
  IN  PagerClose(CacheDestroy(s1).s)

\* the memory of a process that has ended
NoSession(s) ==
  [s EXCEPT !.hdr = NewHeader, !.entries = NewCache(Capacity(s)),
            !.lru = NewLru,
            !.wal = NewWal, !.txn = NewTxn, !.tree = NoTree]

(***************************************************************************)
(* History variable                                                        *)
(***************************************************************************)
NoPages == [p \in Pages |-> GarbagePage]

NoBodies == [p \in Pages |-> ZeroBody]

\* the result of btree_search for every key
SearchAll(s) ==
  [k \in Keys |-> [rc |-> BtreeSearch(s, k).rc,
                   value |-> BtreeSearch(s, k).value]]

NoSnap == [k \in Keys |-> [rc |-> -1, value |-> 0]]

\* the objects a call of the transaction manager may change
Before(s) == [txn |-> s.txn, wal |-> s.wal, entries |-> s.entries,
              lru |-> s.lru]

NoCall == [txn |-> NewTxn, wal |-> NewWal, entries |-> <<>>, lru |-> NewLru]

\* the node a reader of page p gets: the frame of the cache, or the page of
\* the file when the page is not cached
NodeImage(s, p) ==
  IF FindEntry(s, p) # 0 THEN NodeOf(s, p)
  ELSE IF p \in DOMAIN s.disk THEN DeserializeNode(s.disk[p].body)
  ELSE DeserializeNode(ZeroBody)

\* children[0..num_keys] of the internal node on page p, none for a leaf
ChildPages(s, p) ==
  IF NodeImage(s, p).node_type = BTREE_NODE_INTERNAL
    THEN {Child(NodeImage(s, p), i) : i \in 0..NodeImage(s, p).num_keys}
  ELSE {}

RECURSIVE Descendants(_, _, _)
\* the pages reached from the pages ps through child pointers in fuel steps
Descendants(s, ps, fuel) ==
  IF fuel = 0 \/ ps = {} THEN ps
  ELSE ps \cup Descendants(s, UNION {ChildPages(s, p) : p \in ps}, fuel - 1)

\* the pages of the nodes of the tree
TreePages(s) ==
  Descendants(s, {s.tree.root_page}, Cardinality(DOMAIN s.disk))

\* the structure of the tree: its root, and type, keys, parent, leaf chain
\* and children of the node on every page of the tree
Shape(s) ==
  [root_page |-> s.tree.root_page,
   nodes |-> [p \in TreePages(s) |-> [NodeImage(s, p) EXCEPT !.values = <<>>]]]

\* what an insert may not change when its key is present
Frame(s) == [bitmap |-> s.hdr.bitmap, num_entries |-> s.tree.num_entries,
             shape |-> Shape(s)]

NoFrame == [bitmap |-> {}, num_entries |-> 0,
            shape |-> [root_page |-> 0, nodes |-> <<>>]]

NoMap == [k \in MapKeys |-> 0]

\* no reader holds a pin
NoHeld == [p \in Pages |-> 0]

\* btree_get_stats has not been called
NoStats == [num_entries |-> 0, height |-> 0, num_nodes |-> 0]

\* no wal_recover is running
NoScan == [pass |-> 0, offset |-> 0, committed |-> {}, reg |-> {}, head |-> 0, turn |-> 0]

NoGhost ==
  [op |-> "init", rc |-> 0, reopens |-> 0,
   pre |-> NoPages,      \* image on disk of each page when the transaction
                         \* first dirtied it
   dirty |-> {},         \* dirty set of the transaction that ended
   post |-> NoBodies,    \* cache image of each dirty page at commit time
   durable |-> FALSE,    \* the COMMIT record had reached the disk
   checkpointed |-> 0,   \* dirty pages checkpointed before the crash
   failed |-> {},        \* dirty pages whose reload failed in the abort
   before |-> NoPages,   \* data pages when the last open started
   scanned |-> {},       \* WAL region when the last open started
   head |-> 0,           \* header wal_head when the last open started
   recovered |-> FALSE,  \* the last open ran wal_recover
   applied |-> {},       \* offsets of the PAGE records recovery wrote
   snap |-> NoSnap,      \* btree_search of every key when the transaction
                         \* began
   inserted |-> FALSE,   \* the transaction has inserted into the tree
   evicted |-> {},       \* entries the cache evicted in the last step
   wrote |-> {},         \* entries the cache wrote to disk in the last step
   was |-> NoCall,       \* transaction, WAL and cache when the last call
                         \* of the transaction manager started
   map |-> NoMap,        \* value of the last successful insert of each key
                         \* that no successful delete followed, 0 without
   key |-> 0,            \* key of the last insert or delete
   calls |-> 0,          \* calls of btree_insert and btree_delete after the
                         \* tree was loaded
   active |-> FALSE,     \* the tree had an attached transaction that was
                         \* Active when the last call started
   changed |-> {},       \* pages whose node the last call changed
   value |-> 0,          \* value of the last insert
   had |-> FALSE,        \* btree_search found the key before the last insert
   frame |-> NoFrame,    \* pages, num_entries and structure before the last
                         \* insert of a key that was present
   flushed |-> {},       \* records of the region below wal_head when
                         \* wal_flush had succeeded in the last commit
   committed |-> NoPages,\* image each page got from the last transaction
                         \* that wrote it and whose commit returned AMIDB_OK
   dead |-> {},          \* txn_ids of the transactions that were aborted
                         \* or whose commit returned an error
   page |-> 0,           \* page the last cache_get_page of a reader asked
                         \* for, or of the last allocate, free or add
   owned |-> {},         \* pages pager_allocate_page has returned and no
                         \* successful pager_free_page has taken back
   bits |-> {},          \* allocation bitmap when the transaction began
   held |-> NoHeld,      \* for each page, the successful cache_get_page calls
                         \* of readers that no cache_unpin of theirs followed
   stats |-> NoStats,    \* what the last btree_get_stats reported
   nodes |-> {},         \* pages of the nodes of the tree when the last
                         \* btree_get_stats started
   scan |-> NoScan]      \* the wal_recover in progress: its pass, its
                         \* offset, committed_txns and its copy of the
                         \* region

\* pages whose frame carries a non-zero txn_id
TaggedPages(s) ==
  {s.entries[f].page_num : f \in {g \in DOMAIN s.entries :
      s.entries[g].state # CACHE_ENTRY_INVALID /\ s.entries[g].txn_id # 0}}

CachedPages(s) ==
  {s.entries[f].page_num : f \in {g \in DOMAIN s.entries :
      s.entries[g].state # CACHE_ENTRY_INVALID}}

\* the cache images of the pages of a dirty list
PostImages(s, pages) ==
  [p \in Pages |-> IF p \in SeqToSet(pages) /\ FindEntry(s, p) # 0
                     THEN s.entries[FindEntry(s, p)].data ELSE ZeroBody]

\* the history after a step: what the step before recorded is dropped,
\* the pre-images are kept while the transaction is open
Step(op, rc) ==
  [NoGhost EXCEPT !.op = op, !.rc = rc, !.reopens = ghost.reopens,
                  !.committed = ghost.committed, !.dead = ghost.dead,
                  !.owned = ghost.owned,
                  !.pre = IF txn.state = TXN_STATE_ACTIVE THEN ghost.pre
                          ELSE NoPages,
                  !.snap = IF txn.state = TXN_STATE_ACTIVE THEN ghost.snap
                           ELSE NoSnap,
                  !.inserted = txn.state = TXN_STATE_ACTIVE /\ ghost.inserted,
                  !.bits = IF txn.state = TXN_STATE_ACTIVE THEN ghost.bits
                           ELSE {},
                  !.held = ghost.held]

(***************************************************************************)
(* Initial state: a new database file has been created and opened          *)
(***************************************************************************)
\* pager_open on a new file: header with page_count 1 and page 0 marked
\* used, the file extended over the WAL region, the dirty flag persisted
Init ==
  /\ disk = NoPages
  /\ dhdr = [NewHeader EXCEPT !.flags = DB_FLAG_DIRTY]
  /\ region = {}
  /\ running = TRUE
  /\ hdr = [NewHeader EXCEPT !.flags = DB_FLAG_DIRTY]
  /\ entries = NewCache(CacheCapacity)
  /\ lru = NewLru
  /\ wal = NewWal
  /\ txn = NewTxn
  /\ tree = NoTree
  /\ ghost = NoGhost

(***************************************************************************)
(* Actions                                                                 *)
(***************************************************************************)
AllocatePage ==
  /\ running
  /\ FreePages(Cur) # {}
  /\ LET r == PagerAllocatePage(Cur)
     IN  /\ Install(r.s)
         /\ ghost' = Step("allocate", r.page)
  /\ UNCHANGED running

\* a reader: cache_get_page and cache_unpin
ReadPage(p) ==
  /\ running
  /\ p \in hdr.bitmap
  /\ LET g == CacheGetPage(Cur, p)
         s1 == IF g.rc = 0 THEN CacheUnpin(g.s, p) ELSE g.s
     IN  /\ Install(s1)
         /\ ghost' = [Step("cache", g.rc) EXCEPT
                        !.evicted = IF g.evicted = 0 THEN {}
                                    ELSE {Written(Cur, g.evicted)},
                        !.wrote = g.wrote]
  /\ UNCHANGED running

BeginTxn ==
  /\ running
  /\ wal.current_txn_id < MaxTxn
  /\ LET r == TxnBegin(Cur)
     IN  /\ Install(r.s)
         /\ ghost' = Step("begin", r.rc)
  /\ UNCHANGED running

\* a writer inside the transaction: cache_get_page, data[12] = v,
\* cache_mark_dirty, txn_add_dirty_page, entry->txn_id = txn->txn_id; the
\* pin of the first write is the one the transaction releases, the pin of
\* a later write is released at once
WritePage(p, v) ==
  /\ running
  /\ txn.state = TXN_STATE_ACTIVE
  /\ p \in hdr.bitmap
  /\ LET g == CacheGetPage(Cur, p)
         first == p \notin SeqToSet(txn.dirty_pages)
         e == g.frame
         s1 == [g.s EXCEPT !.entries[e].data.node_type = v]
         s2 == TxnAddDirtyPage(CacheMarkDirty(s1, p), p).s
         s3 == [s2 EXCEPT !.entries[e].txn_id = s2.txn.txn_id]
         s4 == IF first THEN s3 ELSE CacheUnpin(s3, p)
     IN  /\ Install(IF g.rc = 0 THEN s4 ELSE g.s)
         /\ ghost' = [Step("cache", g.rc) EXCEPT
                        !.pre[p] = IF g.rc = 0 /\ first THEN disk[p] ELSE @,
                        !.evicted = IF g.evicted = 0 THEN {}
                                    ELSE {Written(Cur, g.evicted)},
                        !.wrote = g.wrote]
  /\ UNCHANGED running

\* a writer outside any transaction: cache_get_page, data[12] = v,
\* cache_mark_dirty, cache_unpin
WritePageNoTxn(p, v) ==
  /\ running
  /\ txn.state = TXN_STATE_IDLE
  /\ p \in hdr.bitmap
  /\ LET g == CacheGetPage(Cur, p)
         e == g.frame
         s1 == [g.s EXCEPT !.entries[e].data.node_type = v]
         s2 == CacheUnpin(CacheMarkDirty(s1, p), p)
     IN  /\ Install(IF g.rc = 0 THEN s2 ELSE g.s)
         /\ ghost' = [Step("cache", g.rc) EXCEPT
                        !.evicted = IF g.evicted = 0 THEN {}
                                    ELSE {Written(Cur, g.evicted)},
                        !.wrote = g.wrote]
  /\ UNCHANGED running

\* the WAL on disk once wal_flush has returned fl: the records of the region
\* below wal_head
FlushedOf(fl) ==
  IF fl.rc # AMIDB_OK THEN {}
  ELSE {r \in fl.s.region : r.off < fl.s.wal.wal_head}

\* the WAL on disk at the durability point of txn_commit, lg being the
\* result of steps 1 and 2
FlushedLog(lg, nwritten) ==
  IF lg.rc # AMIDB_OK THEN {} ELSE FlushedOf(WalFlush(lg.s, nwritten))

\* the number of records txn_commit hands to wal_flush
CommitRecords == Len(CommitLog(Cur).s.wal.buffer)

CommitTxn(nwritten, wrfail) ==
  /\ running
  /\ txn.state = TXN_STATE_ACTIVE
  /\ LET r == TxnCommit(Cur, nwritten, wrfail)
     IN  /\ Install(r.s)
         /\ ghost' = [Step("commit", r.rc) EXCEPT
                        !.dirty = SeqToSet(txn.dirty_pages),
                        !.post = PostImages(Cur, txn.dirty_pages),
                        !.flushed = FlushedLog(CommitLog(Cur), nwritten)]
  /\ UNCHANGED running

AbortTxn(rdfail) ==
  /\ running
  /\ txn.state = TXN_STATE_ACTIVE
  /\ LET r == TxnAbort(Cur, rdfail)
     IN  /\ Install(r.s)
         /\ ghost' = [Step("abort", r.rc) EXCEPT
                        !.dirty = SeqToSet(txn.dirty_pages),
                        !.failed = rdfail]
  /\ UNCHANGED running

FlushCache ==
  /\ running
  /\ LET r == CacheFlush(Cur)
     IN  /\ Install(r.s)
         /\ ghost' = [Step("flush", r.rc) EXCEPT !.wrote = r.wrote]
  /\ UNCHANGED running

\* the process dies inside txn_commit
CrashInCommit(nwritten, npages) ==
  /\ running
  /\ txn.state = TXN_STATE_ACTIVE
  /\ LET s1 == CommitUntilCrash(Cur, nwritten, npages)
     IN  /\ Install(NoSession(s1))
         /\ ghost' = [Step("crash_in_commit", 0) EXCEPT
                        !.dirty = SeqToSet(txn.dirty_pages),
                        !.post = PostImages(Cur, txn.dirty_pages),
                        !.durable = (nwritten = CommitRecords),
                        !.checkpointed = npages]
  /\ running' = FALSE

\* the process dies between two calls
Crash ==
  /\ running
  /\ Install(NoSession(Cur))
  /\ ghost' = Step("crash", 0)
  /\ running' = FALSE

\* clean shutdown
Close ==
  /\ running
  /\ LET d == CacheDestroy(IF txn.state = TXN_STATE_ACTIVE
                             THEN TxnAbort(Cur, {}).s ELSE Cur)
     IN  /\ Install(NoSession(PagerClose(d.s)))
         /\ ghost' = [Step("close", 0) EXCEPT !.wrote = d.wrote]
  /\ running' = FALSE

Open ==
  /\ ~running
  /\ ghost.reopens < MaxReopen
  /\ LET r == PagerOpen(Cur)
     IN  /\ Install(r.s)
         /\ ghost' = IF ghost.op = "crash_in_commit"
                       THEN [ghost EXCEPT
                               !.op = "open_after_crash_in_commit",
                               !.reopens = @ + 1, !.before = disk,
                               !.scanned = region, !.head = dhdr.wal_head,
                               !.recovered = r.recovered,
                               !.applied = r.applied]
                     ELSE [Step("open", 0) EXCEPT
                             !.reopens = @ + 1, !.before = disk,
                             !.scanned = region, !.head = dhdr.wal_head,
                             !.recovered = r.recovered,
                             !.applied = r.applied]
  /\ running' = TRUE

\* the recovery harness: wal->current_txn_id = id, then wal_write_record of
\* a BEGIN, COMMIT or PAGE record; a PAGE record carries page p with byte
\* 12 set to v
HarnessLog(id, type, p, v) ==
  /\ running
  /\ Len(wal.buffer) < MaxLog
  /\ type = WAL_PAGE => p \in hdr.bitmap
  /\ LET s1 == [Cur EXCEPT !.wal.current_txn_id = id]
         w == WalWriteRecord(s1, type, IF type = WAL_PAGE THEN p ELSE 0,
                             IF type = WAL_PAGE
                               THEN [ZeroBody EXCEPT !.node_type = v]
                               ELSE ZeroBody)
     IN  /\ Install(w.s)
         /\ ghost' = Step("log", w.rc)
  /\ UNCHANGED running

\* the recovery harness: wal_flush, once
HarnessFlush ==
  /\ running
  /\ wal.buffer # <<>>
  /\ wal.wal_head = 0
  /\ LET r == WalFlush(Cur, Len(wal.buffer))
     IN  /\ Install(r.s)
         /\ ghost' = Step("wal_flush", r.rc)
  /\ UNCHANGED running

\* the recovery harness: header.flags |= DB_FLAG_DIRTY, header.wal_head =
\* wal->wal_head, pager_write_header
PersistHeader ==
  /\ running
  /\ Install(WriteHeaderPage([Cur EXCEPT !.hdr.flags = DB_FLAG_DIRTY,
                                         !.hdr.wal_head = wal.wal_head]))
  /\ ghost' = Step("persist", 0)
  /\ UNCHANGED running

\* the recovery harness: the header of the record r of the region is read,
\* its checksum (or its magic) overwritten, and written back
CorruptRecord(r, magic) ==
  /\ running
  /\ r \in region
  /\ r.magic_ok /\ r.crc_ok
  /\ Install([Cur EXCEPT !.region =
                (@ \ {r}) \cup {IF magic THEN [r EXCEPT !.magic_ok = FALSE]
                                          ELSE [r EXCEPT !.crc_ok = FALSE]}])
  /\ ghost' = Step("corrupt", 0)
  /\ UNCHANGED running

\* a new database opened for the B+Tree runs
InitTree ==
  /\ disk = [p \in 1..TreeMaxPage |-> GarbagePage]
  /\ dhdr = [NewHeader EXCEPT !.flags = DB_FLAG_DIRTY]
  /\ region = {}
  /\ running = TRUE
  /\ hdr = [NewHeader EXCEPT !.flags = DB_FLAG_DIRTY]
  /\ entries = NewCache(TreeCacheCapacity)
  /\ lru = NewLru
  /\ wal = NewWal
  /\ txn = NewTxn
  /\ tree = NoTree
  /\ ghost = NoGhost

CreateTree ==
  /\ running
  /\ ~tree.open
  /\ Install(BtreeCreate(Cur))
  /\ ghost' = Step("create", 0)
  /\ UNCHANGED running

\* btree_set_transaction(tree, txn)
SetTransaction ==
  /\ running
  /\ tree.open
  /\ ~tree.attached
  /\ txn.state = TXN_STATE_IDLE
  /\ Install([Cur EXCEPT !.tree.attached = TRUE])
  /\ ghost' = Step("attach", 0)
  /\ UNCHANGED running

BeginTreeTxn ==
  /\ running
  /\ tree.open
  /\ wal.current_txn_id < TreeMaxTxn
  /\ LET r == TxnBegin(Cur)
     IN  /\ Install(r.s)
         /\ ghost' = IF r.rc = AMIDB_OK
                       THEN [Step("begin", r.rc) EXCEPT
                               !.snap = SearchAll(Cur), !.inserted = FALSE,
                               !.bits = hdr.bitmap]
                     ELSE Step("begin", r.rc)
  /\ UNCHANGED running

\* btree_insert inside the transaction
Insert(key, value) ==
  /\ running
  /\ tree.open
  /\ txn.state = TXN_STATE_ACTIVE
  /\ LET r == BtreeInsert(Cur, key, value)
     IN  /\ Install(r.s)
         /\ ghost' = [Step("insert", r.rc) EXCEPT !.inserted = TRUE]
  /\ UNCHANGED running

\* txn_commit without I/O failure
TreeCommit == tree.open /\ CommitTxn(CommitRecords, {})

\* txn_abort without I/O failure
TreeAbort == tree.open /\ AbortTxn({})

\* txn_begin called in any state of the transaction
BeginCall ==
  /\ running
  /\ txn.state # TXN_STATE_IDLE \/ wal.current_txn_id < MaxTxn
  /\ LET r == TxnBegin(Cur)
     IN  /\ Install(r.s)
         /\ ghost' = [Step("begin_call", r.rc) EXCEPT !.was = Before(Cur)]
  /\ UNCHANGED running

\* txn_commit called in any state of the transaction
CommitCall(nwritten, wrfail) ==
  /\ running
  /\ LET r == TxnCommit(Cur, nwritten, wrfail)
     IN  /\ Install(r.s)
         /\ ghost' = [Step("commit_call", r.rc) EXCEPT !.was = Before(Cur)]
  /\ UNCHANGED running

\* txn_abort called in any state of the transaction
AbortCall ==
  /\ running
  /\ LET r == TxnAbort(Cur, {})
     IN  /\ Install(r.s)
         /\ ghost' = [Step("abort_call", r.rc) EXCEPT !.was = Before(Cur)]
  /\ UNCHANGED running

\* txn_commit in any state with every outcome of wal_flush
CommitCallOutcomes ==
  \E nwritten \in 0..CommitRecords : CommitCall(nwritten, {})

\* commit with every outcome of wal_flush and of the checkpoint writes
CommitOutcomes ==
  \E n \in 0..CommitRecords, wrfail \in SUBSET SeqToSet(txn.dirty_pages) :
    /\ Cardinality(wrfail) <= 1
    /\ CommitTxn(n, wrfail)

\* abort with every outcome of the reloads
AbortOutcomes ==
  \E rdfail \in SUBSET SeqToSet(txn.dirty_pages) :
    /\ Cardinality(rdfail) <= 1
    /\ AbortTxn(rdfail)

\* the process dies in wal_flush or between two checkpoint writes
CrashOutcomes ==
  \E n \in 0..CommitRecords, k \in 0..Len(txn.dirty_pages) :
    /\ (n < CommitRecords => k = 0)
    /\ CrashInCommit(n, k)

\* transactions over the cache, with crashes and reopening
Next ==
  \/ AllocatePage
  \/ \E p \in Pages : ReadPage(p)
  \/ BeginTxn
  \/ \E p \in Pages, v \in 1..MaxByte : WritePage(p, v)
  \/ CommitOutcomes
  \/ AbortOutcomes
  \/ CrashOutcomes
  \/ Crash
  \/ Close
  \/ Open

Spec == Init /\ [][Next]_vars

\* one session of cache clients inside and outside a transaction
NextCache ==
  \/ AllocatePage
  \/ \E p \in Pages : ReadPage(p)
  \/ BeginTxn
  \/ \E p \in Pages, v \in 1..MaxByte : WritePage(p, v)
  \/ \E p \in Pages, v \in 1..MaxByte : WritePageNoTxn(p, v)
  \/ CommitOutcomes
  \/ AbortOutcomes
  \/ FlushCache
  \/ Close

SpecCache == Init /\ [][NextCache]_vars

\* the recovery tests: one session writes a log through the WAL, damages
\* records of the region and persists the header; the file is opened again
NextRec ==
  \/ ghost.reopens = 0 /\ AllocatePage
  \/ \E id \in 1..MaxTxnId, type \in {WAL_BEGIN, WAL_COMMIT} :
       ghost.reopens = 0 /\ HarnessLog(id, type, 0, 0)
  \/ \E id \in 1..MaxTxnId, p \in Pages, v \in 1..MaxByte :
       ghost.reopens = 0 /\ HarnessLog(id, WAL_PAGE, p, v)
  \/ ghost.reopens = 0 /\ HarnessFlush
  \/ ghost.reopens = 0 /\ PersistHeader
  \/ \E r \in region, magic \in BOOLEAN :
       ghost.reopens = 0 /\ CorruptRecord(r, magic)
  \/ ghost.reopens = 0 /\ Close
  \/ ghost.reopens = 0 /\ Crash
  \/ Open

SpecRec == Init /\ [][NextRec]_vars

\* the calls of the transaction manager in every state of the transaction
NextTxn ==
  \/ AllocatePage
  \/ \E p \in Pages, v \in 1..MaxByte : WritePage(p, v)
  \/ BeginCall
  \/ CommitCallOutcomes
  \/ AbortCall

SpecTxn == Init /\ [][NextTxn]_vars

\* the state and the history after txn_begin returned r
LogBegun(r) ==
  /\ Install(r.s)
  /\ ghost' = Step("begin", r.rc)

\* txn_begin in a session that runs several transactions
LogBegin ==
  /\ running
  /\ wal.current_txn_id < LogMaxTxn
  /\ LogBegun(TxnBegin(Cur))
  /\ UNCHANGED running

\* the images of the pages after a commit of the dirty list pages that
\* returned rc
CommittedImages(rc, pages) ==
  [p \in Pages |->
     IF rc = AMIDB_OK /\ p \in SeqToSet(pages) /\ FindEntry(Cur, p) # 0
       THEN [ok |-> TRUE, body |-> entries[FindEntry(Cur, p)].data]
     ELSE ghost.committed[p]]

\* the state and the history after txn_commit returned r
LogCommitted(r, lg, nwritten) ==
  /\ Install(r.s)
  /\ ghost' = [Step("commit", r.rc) EXCEPT
                 !.dirty = SeqToSet(txn.dirty_pages),
                 !.post = PostImages(Cur, txn.dirty_pages),
                 !.flushed = FlushedLog(lg, nwritten),
                 !.committed = CommittedImages(r.rc, txn.dirty_pages),
                 !.dead = IF r.rc = AMIDB_OK THEN @ ELSE @ \cup {txn.txn_id}]

\* txn_commit in a session that runs several transactions
LogCommit(nwritten, wrfail) ==
  /\ running
  /\ txn.state = TXN_STATE_ACTIVE
  /\ LogCommitted(TxnCommit(Cur, nwritten, wrfail), CommitLog(Cur), nwritten)
  /\ UNCHANGED running

\* the state and the history after txn_abort returned r
LogAborted(r) ==
  /\ Install(r.s)
  /\ ghost' = [Step("abort", r.rc) EXCEPT
                 !.dirty = SeqToSet(txn.dirty_pages),
                 !.dead = @ \cup {txn.txn_id}]

\* txn_abort in a session that runs several transactions
LogAbort ==
  /\ running
  /\ txn.state = TXN_STATE_ACTIVE
  /\ LogAborted(TxnAbort(Cur, {}))
  /\ UNCHANGED running

\* commit with every outcome of wal_flush and of the checkpoint writes
LogCommitOutcomes ==
  \E n \in 0..CommitRecords, wrfail \in SUBSET SeqToSet(txn.dirty_pages) :
    /\ Cardinality(wrfail) <= 1
    /\ LogCommit(n, wrfail)

\* one session that runs several transactions one after the other
NextLog ==
  \/ AllocatePage
  \/ LogBegin
  \/ \E p \in Pages, v \in 1..LogMaxByte : WritePage(p, v)
  \/ LogCommitOutcomes
  \/ LogAbort

SpecLog == Init /\ [][NextLog]_vars

\* readers that keep their pins next to one transaction
PinGot(p, g) ==
  /\ Install(g.s)
  /\ ghost' = [Step("get", g.rc) EXCEPT
                 !.page = p,
                 !.evicted = IF g.evicted = 0 THEN {}
                             ELSE {Written(Cur, g.evicted)},
                 !.wrote = g.wrote]

\* cache_get_page whose pin the reader keeps
PinGet(p) ==
  /\ running
  /\ p \in hdr.bitmap
  /\ (FindEntry(Cur, p) # 0 => entries[FindEntry(Cur, p)].pin_count < PinMax)
  /\ PinGot(p, CacheGetPage(Cur, p))
  /\ UNCHANGED running

\* cache_unpin by a reader
PinRelease(p) ==
  /\ running
  /\ FindEntry(Cur, p) # 0
  /\ entries[FindEntry(Cur, p)].pin_count > 0
  /\ Install(CacheUnpin(Cur, p))
  /\ ghost' = [Step("unpin", 0) EXCEPT !.page = p]
  /\ UNCHANGED running

NextPin ==
  \/ AllocatePage
  \/ \E p \in Pages : PinGet(p)
  \/ \E p \in Pages : PinRelease(p)
  \/ BeginTxn
  \/ \E p \in Pages, v \in 1..MaxByte : WritePage(p, v)
  \/ CommitOutcomes
  \/ AbortOutcomes

SpecPin == Init /\ [][NextPin]_vars

\* txn_add_dirty_page called directly, as the transaction tests call it
AddedDirty(p, r) ==
  /\ Install(r.s)
  /\ ghost' = [Step("add", r.rc) EXCEPT !.page = p]

AddDirtyPage(p) ==
  /\ running
  /\ AddedDirty(p, TxnAddDirtyPage(Cur, p))
  /\ UNCHANGED running

\* the pages the caller passes: the first one, the last one added and the
\* next new one
AddInputs ==
  {1, IF Len(txn.dirty_pages) < AddMaxPage THEN Len(txn.dirty_pages) + 1
      ELSE AddMaxPage} \cup
  (IF txn.dirty_pages = <<>> THEN {}
   ELSE {txn.dirty_pages[Len(txn.dirty_pages)]})

NextAdd ==
  \/ BeginTxn
  \/ \E p \in AddInputs : AddDirtyPage(p)

SpecAdd == Init /\ [][NextAdd]_vars

\* the allocator alone, over two sessions
Allocated(r) ==
  /\ Install(r.s)
  /\ ghost' = [Step("allocate", r.rc) EXCEPT
                 !.page = r.page,
                 !.owned = IF r.rc = 0 THEN @ \cup {r.page} ELSE @]

AllocPage(wrok) ==
  /\ running
  /\ Allocated(PagerAllocatePageIo(Cur, wrok))
  /\ UNCHANGED running

Freed(p, r) ==
  /\ Install(r.s)
  /\ ghost' = [Step("free", r.rc) EXCEPT
                 !.page = p,
                 !.owned = IF r.rc = 0 THEN @ \ {p} ELSE @]

FreePage(p, wrok) ==
  /\ running
  /\ Freed(p, PagerFreePageIo(Cur, p, wrok))
  /\ UNCHANGED running

NextAlloc ==
  \/ \E wrok \in BOOLEAN : AllocPage(wrok)
  \/ \E p \in 0..MaxPage, wrok \in BOOLEAN : FreePage(p, wrok)
  \/ Close
  \/ Open

SpecAlloc == Init /\ [][NextAlloc]_vars

\* the first four bytes of the closed file are overwritten from outside
Scribble(m) ==
  /\ ~running
  /\ dhdr.magic # m
  /\ dhdr' = [dhdr EXCEPT !.magic = m]
  /\ ghost' = Step("scribble", 0)
  /\ UNCHANGED <<disk, region, hdr, entries, lru, wal, txn, tree, running>>

\* pager_open(path, 0, &pager) with cache_create, wal_create, txn_create
OpenedWritable(r) ==
  /\ Install(r.s)
  /\ ghost' = [Step("open_rw", r.rc) EXCEPT !.reopens = @ + 1]

OpenWritable ==
  /\ ~running
  /\ ghost.reopens < OpenMaxReopen
  /\ OpenedWritable(PagerOpenFile(Cur, FALSE))
  /\ running' = TRUE

\* pager_open(path, 1, &pager), followed by pager_close when it succeeded;
\* the close of a read-only pager writes nothing
OpenedReadOnly(r) ==
  /\ Install(NoSession(r.s))
  /\ ghost' = [Step("open_ro", r.rc) EXCEPT !.reopens = @ + 1]

OpenReadOnly ==
  /\ ~running
  /\ ghost.reopens < OpenMaxReopen
  /\ OpenedReadOnly(PagerOpenFile(Cur, TRUE))
  /\ UNCHANGED running

NextOpen ==
  \/ AllocatePage
  \/ \E p \in Pages, v \in 1..MaxByte : WritePageNoTxn(p, v)
  \/ FlushCache
  \/ Close
  \/ \E m \in {0, AMIDB_MAGIC} : Scribble(m)
  \/ OpenWritable
  \/ OpenReadOnly

SpecOpen == Init /\ [][NextOpen]_vars

\* a new database with room for more dirty pages than the WAL buffer holds
InitCap ==
  /\ disk = [p \in 1..CapMaxPage |-> GarbagePage]
  /\ dhdr = [NewHeader EXCEPT !.flags = DB_FLAG_DIRTY]
  /\ region = {}
  /\ running = TRUE
  /\ hdr = [NewHeader EXCEPT !.flags = DB_FLAG_DIRTY]
  /\ entries = NewCache(CapMaxPage)
  /\ lru = NewLru
  /\ wal = NewWal
  /\ txn = NewTxn
  /\ tree = NoTree
  /\ ghost = NoGhost

\* the writer of WritePage on the pages of a larger file, one page after
\* the other
CapWrote(p, v, g) ==
  /\ g.rc = 0
  /\ Install([TxnAddDirtyPage(
                CacheMarkDirty([g.s EXCEPT
                                  !.entries[g.frame].data.node_type = v], p),
                p).s EXCEPT !.entries[g.frame].txn_id = txn.txn_id])
  /\ ghost' = [Step("cache", g.rc) EXCEPT !.page = p]

CapWrite(p, v) ==
  /\ running
  /\ txn.state = TXN_STATE_ACTIVE
  /\ p \in hdr.bitmap
  /\ p = Len(txn.dirty_pages) + 1
  /\ CapWrote(p, v, CacheGetPage(Cur, p))
  /\ UNCHANGED running

\* txn_commit with every file operation succeeding
CapCommit ==
  CommitTxn(CommitRecords, {})

NextCap ==
  \/ AllocatePage
  \/ BeginTxn
  \/ \E p \in 1..CapMaxPage, v \in 1..LogMaxByte : CapWrite(p, v)
  \/ CapCommit

SpecCap == InitCap /\ [][NextCap]_vars

\* the record headers a closed file may hold in slot i of its WAL region:
\* any magic, checksum, type and record_size, also 0, less than the header
\* and more than the region
ScanSizes == {0, 8, WAL_HEADER_SIZE, WAL_REGION_SIZE}

ScanRecords(off) ==
  {[off |-> off, type |-> t, txn_id |-> 1, size |-> z,
    page_num |-> IF t = WAL_PAGE THEN 1 ELSE 0, data |-> ZeroBody,
    magic_ok |-> m, crc_ok |-> c] :
     t \in {WAL_BEGIN, WAL_COMMIT, WAL_PAGE}, z \in ScanSizes,
     m \in BOOLEAN, c \in BOOLEAN}

ScanSlot(i) ==
  {{}} \cup {{r} : r \in ScanRecords((i - 1) * WAL_HEADER_SIZE)}

RECURSIVE ScanRegions(_)
ScanRegions(n) ==
  IF n = 0 THEN {{}}
  ELSE {a \cup b : a \in ScanRegions(n - 1), b \in ScanSlot(n)}

\* a file that was not closed cleanly, with any header wal_head and any
\* content of the region
InitScan ==
  /\ disk = NoPages
  /\ dhdr \in {[NewHeader EXCEPT !.flags = DB_FLAG_DIRTY, !.wal_head = h] :
               h \in {i * WAL_HEADER_SIZE : i \in 0..(ScanSlots + 1)}}
  /\ region \in ScanRegions(ScanSlots)
  /\ running = FALSE
  /\ hdr = NewHeader
  /\ entries = NewCache(CacheCapacity)
  /\ lru = NewLru
  /\ wal = NewWal
  /\ txn = NewTxn
  /\ tree = NoTree
  /\ ghost = NoGhost

\* pager_open up to the call of wal_recover, and wal_recover up to its
\* first loop: the header is read, the region copied
ScanOpen ==
  /\ ~running
  /\ ghost.scan.pass = 0
  /\ dhdr.flags = DB_FLAG_DIRTY
  /\ Install([Cur EXCEPT !.hdr = dhdr])
  /\ ghost' = [Step("recover", 0) EXCEPT
                 !.scan = [pass |-> 1, offset |-> 0, committed |-> {},
                           reg |-> region, head |-> dhdr.wal_head,
                           turn |-> 0]]
  /\ UNCHANGED running

\* the condition of both loops of wal_recover
ScanInside(sc) ==
  sc.offset < sc.head /\ sc.offset + WAL_HEADER_SIZE <= WAL_REGION_SIZE

\* one turn of the loop of pass 1; crc is the result of
\* wal_verify_checksum
Pass1Turn(sc, r, crc) ==
  IF ~ScanInside(sc) \/ ~r.magic_ok \/ ~crc
    THEN [sc EXCEPT !.pass = 2, !.offset = 0]
  ELSE [sc EXCEPT !.offset = @ + r.size,
                  !.committed = IF r.type = WAL_COMMIT
                                  THEN @ \cup {r.txn_id} ELSE @]

\* the results wal_verify_checksum can give: a record_size that reaches
\* past the copy of the region makes it read outside the buffer
ChecksumResults(r) ==
  IF r.size >= WAL_HEADER_SIZE /\ r.off + r.size > WAL_REGION_SIZE
    THEN BOOLEAN
  ELSE {WalVerifyChecksum(r)}

Pass1Step ==
  /\ ghost.scan.pass = 1
  /\ \E crc \in ChecksumResults(RecordAt(ghost.scan.reg, ghost.scan.offset)) :
       ghost' = [Step("recover", 0) EXCEPT
                   !.scan = Pass1Turn(ghost.scan,
                                      RecordAt(ghost.scan.reg,
                                               ghost.scan.offset), crc)]
  /\ UNCHANGED <<disk, dhdr, region, running, hdr, entries, lru, wal, txn,
                 tree>>

\* one turn of the loop of pass 2: only the magic is tested, a PAGE record
\* of a committed transaction is written through the pager
Pass2Replays(sc, r) ==
  ScanInside(sc) /\ r.magic_ok /\ r.txn_id \in sc.committed
                 /\ r.type = WAL_PAGE

\* turn is the parity of the turns of the loop taken so far
Pass2Turn(sc, r) ==
  IF ~ScanInside(sc) \/ ~r.magic_ok THEN [sc EXCEPT !.pass = 3]
  ELSE [sc EXCEPT !.offset = @ + r.size, !.turn = 1 - @]

Pass2Stepped(sc, r) ==
  /\ Install(IF Pass2Replays(sc, r)
               THEN PagerWritePage(Cur, r.page_num, r.data) ELSE Cur)
  /\ ghost' = [Step("recover", 0) EXCEPT !.scan = Pass2Turn(sc, r)]

Pass2Step ==
  /\ ghost.scan.pass = 2
  /\ Pass2Stepped(ghost.scan, RecordAt(ghost.scan.reg, ghost.scan.offset))
  /\ UNCHANGED running

\* the end of wal_recover and of pager_open: the header is written with
\* the flag clear and the session starts
ScanDone ==
  /\ ghost.scan.pass = 3
  /\ Install(WriteHeaderPage([Cur EXCEPT !.hdr.flags = 0,
                                         !.hdr.wal_head = 0,
                                         !.hdr.wal_tail = 0]))
  /\ ghost' = [Step("open", 0) EXCEPT !.recovered = TRUE,
                                      !.scan = [NoScan EXCEPT !.pass = 4]]
  /\ running' = TRUE

NextScan ==
  \/ ScanOpen
  \/ Pass1Step
  \/ Pass2Step
  \/ ScanDone

\* pager_open runs to its end unless a loop keeps it
SpecScan == InitScan /\ [][NextScan]_vars /\ WF_vars(NextScan)

\* cache clients and pager_free_page in one session, without transactions
NextCoh ==
  \/ AllocatePage
  \/ \E p \in Pages : ReadPage(p)
  \/ \E p \in Pages, v \in 1..MaxByte : WritePageNoTxn(p, v)
  \/ FlushCache
  \/ \E p \in Pages : FreePage(p, TRUE)

SpecCoh == Init /\ [][NextCoh]_vars

\* a new database opened for the runs with btree_delete
InitMap ==
  /\ disk = [p \in 1..MapMaxPage |-> GarbagePage]
  /\ dhdr = [NewHeader EXCEPT !.flags = DB_FLAG_DIRTY]
  /\ region = {}
  /\ running = TRUE
  /\ hdr = [NewHeader EXCEPT !.flags = DB_FLAG_DIRTY]
  /\ entries = NewCache(MapCacheCapacity)
  /\ lru = NewLru
  /\ wal = NewWal
  /\ txn = NewTxn
  /\ tree = NoTree
  /\ ghost = NoGhost

\* the i-th key of a loading loop: the loops of the tests run over the keys
\* in ascending or in descending order
LoadKey(i, reverse) == IF reverse THEN MapMaxKey + 1 - i ELSE i

\* the loading loop's state after one more call of btree_insert: the machine
\* state, the keys inserted with success and the return code of the call
LoadAdd(l, r, key) ==
  [s |-> r.s, rc |-> r.rc,
   map |-> IF r.rc = 0 THEN [l.map EXCEPT ![key] = 1] ELSE l.map]

\* one pass of the loading loop
LoadInsert(l, key) == LoadAdd(l, BtreeInsert(l.s, key, 1), key)

RECURSIVE LoadFrom(_, _, _, _)
\* the passes i..n of the loading loop, which ends at the first call that
\* fails
LoadFrom(l, i, n, reverse) ==
  IF i > n \/ l.rc # 0 THEN l
  ELSE LoadFrom(LoadInsert(l, LoadKey(i, reverse)), i + 1, n, reverse)

\* the loop of the tests that inserts n keys, each with the value 1
LoadLoop(s, n, reverse) ==
  LoadFrom([s |-> s, rc |-> 0, map |-> NoMap], 1, n, reverse)

\* the machine state after the loading loop
LoadKeys(s, n, reverse) == LoadLoop(s, n, reverse).s

\* the state and the history after btree_create and the loading loop
MapCreated(l) ==
  /\ Install(l.s)
  /\ ghost' = [Step("create", 0) EXCEPT !.map = l.map]

\* btree_create followed by the loading loop for n keys
MapCreate(n, reverse) ==
  /\ running
  /\ ~tree.open
  /\ MapCreated(LoadLoop(BtreeCreate(Cur), n, reverse))
  /\ UNCHANGED running

\* the history after a call of btree_insert or btree_delete
MapStep(op, rc, key, map) ==
  [Step(op, rc) EXCEPT !.key = key, !.map = map, !.calls = ghost.calls + 1]

\* the state and the history after btree_insert returned r; found is the
\* result of a search for the key before the call
MapInserted(r, found, key, value) ==
  /\ Install(r.s)
  /\ ghost' = [MapStep("insert", r.rc, key,
                       IF r.rc = 0 THEN [ghost.map EXCEPT ![key] = value]
                       ELSE ghost.map)
                 EXCEPT !.value = value,
                        !.had = found.rc = 0,
                        !.frame = IF found.rc = 0 THEN Frame(Cur)
                                  ELSE NoFrame]

\* btree_insert without a transaction
MapInsert(key, value) ==
  /\ running
  /\ tree.open
  /\ ghost.calls < MapMaxCalls
  /\ MapInserted(BtreeInsert(Cur, key, value), BtreeSearch(Cur, key), key,
                 value)
  /\ UNCHANGED running

\* the state and the history after btree_delete returned r
MapDeleted(r, key) ==
  /\ Install(r.s)
  /\ ghost' = MapStep("delete", r.rc, key,
                      IF r.rc = 0 THEN [ghost.map EXCEPT ![key] = 0]
                      ELSE ghost.map)

\* btree_delete without a transaction
MapDelete(key) ==
  /\ running
  /\ tree.open
  /\ ghost.calls < MapMaxCalls
  /\ MapDeleted(BtreeDelete(Cur, key), key)
  /\ UNCHANGED running

\* btree_close, then btree_open with the root page the closed handle had
MapReopen ==
  /\ running
  /\ tree.open
  /\ ghost.calls < MapMaxCalls
  /\ Install(BtreeOpen(Cur, tree.root_page))
  /\ ghost' = MapStep("reopen", 0, 0, ghost.map)
  /\ UNCHANGED running

\* a B+Tree loaded and then changed by inserts and deletes
NextMap ==
  \/ MapReopen
  \/ \E n \in 0..MapMaxKey, reverse \in BOOLEAN : MapCreate(n, reverse)
  \/ \E k \in MapKeys, v \in 1..MapMaxValue : MapInsert(k, v)
  \/ \E k \in MapKeys : MapDelete(k)

SpecMap == InitMap /\ [][NextMap]_vars

\* a new database opened for the runs that fill the dirty list
InitDirty ==
  /\ disk = [p \in 1..DirtyMaxPage |-> GarbagePage]
  /\ dhdr = [NewHeader EXCEPT !.flags = DB_FLAG_DIRTY]
  /\ region = {}
  /\ running = TRUE
  /\ hdr = [NewHeader EXCEPT !.flags = DB_FLAG_DIRTY]
  /\ entries = NewCache(DirtyCacheCapacity)
  /\ lru = NewLru
  /\ wal = NewWal
  /\ txn = NewTxn
  /\ tree = NoTree
  /\ ghost = NoGhost

\* the pages whose node differs for a reader between the states s and s1
ChangedPages(s, s1) ==
  {p \in DOMAIN s.disk : NodeImage(s, p) # NodeImage(s1, p)}

\* the state and the history after a call that took the state s and returned
\* r, on a tree that may have a transaction attached
DirtyStep(op, key, s, r) ==
  /\ Install(r.s)
  /\ ghost' = [Step(op, r.rc) EXCEPT
                 !.key = key, !.calls = ghost.calls + 1,
                 !.active = s.tree.attached /\ s.txn.state = TXN_STATE_ACTIVE,
                 !.changed = ChangedPages(s, r.s)]

\* the last call of the loading loop
DirtyLoadLast(s, n) == DirtyStep("insert", n, s, BtreeInsert(s, n, 1))

\* the loop of the tests that inserts the keys 1..n; the history is that of
\* its last call
DirtyLoad(n) ==
  /\ running
  /\ tree.open
  /\ tree.num_entries = 0
  /\ ghost.calls < DirtyMaxCalls
  /\ DirtyLoadLast(LoadKeys(Cur, n - 1, FALSE), n)
  /\ UNCHANGED running

\* btree_insert on a tree that may have a transaction attached
DirtyInsert(key, value) ==
  /\ running
  /\ tree.open
  /\ ghost.calls < DirtyMaxCalls
  /\ DirtyStep("insert", key, Cur, BtreeInsert(Cur, key, value))
  /\ UNCHANGED running

\* btree_delete on a tree that may have a transaction attached
DirtyDelete(key) ==
  /\ running
  /\ tree.open
  /\ ghost.calls < DirtyMaxCalls
  /\ DirtyStep("delete", key, Cur, BtreeDelete(Cur, key))
  /\ UNCHANGED running

\* a B+Tree that changes many pages; the transaction is attached and begun
\* before the first call of btree_insert or btree_delete
NextDirty ==
  \/ CreateTree
  \/ ghost.calls = 0 /\ SetTransaction
  \/ ghost.calls = 0 /\ BeginTreeTxn
  \/ \E n \in (DirtyMaxLoad - 1)..DirtyMaxLoad : DirtyLoad(n)
  \/ \E k \in Keys, v \in 1..MaxValue : DirtyInsert(k, v)
  \/ \E k \in Keys : DirtyDelete(k)

SpecDirty == InitDirty /\ [][NextDirty]_vars

\* a B+Tree filled and changed by transactions
NextTree ==
  \/ CreateTree
  \/ SetTransaction
  \/ BeginTreeTxn
  \/ \E k \in Keys, v \in 1..MaxValue : Insert(k, v)
  \/ TreeCommit
  \/ TreeAbort

SpecTree == InitTree /\ [][NextTree]_vars

(***************************************************************************)
(* Properties                                                              *)
(***************************************************************************)
\* what a reader gets for page p: cache_get_page and the frame's data
ReadBack(s, p) ==
  LET g == CacheGetPage(s, p)
  IN  IF g.rc = 0 THEN [ok |-> TRUE, body |-> g.s.entries[g.frame].data]
      ELSE GarbagePage

\* page p as the file holds it when its body is b
OnDisk(b) == [ok |-> TRUE, body |-> b]

\* the bytes of page p lie in the WAL region of the file
InWalRegion(p) ==
  /\ p * AMIDB_PAGE_SIZE < WAL_REGION_START + WAL_REGION_SIZE
  /\ WAL_REGION_START < (p + 1) * AMIDB_PAGE_SIZE

\* C1: after a crash inside the commit of a transaction and the next open,
\* every page of its dirty set holds on disk the image it had before the
\* transaction when the COMMIT record had not reached the disk, and the
\* image the transaction gave it when the COMMIT record had.
C1_CrashInCommitIsAtomic ==
  ghost.op = "open_after_crash_in_commit" =>
    \A p \in ghost.dirty :
      disk[p] = IF ghost.durable THEN OnDisk(ghost.post[p]) ELSE ghost.pre[p]

\* C2: the WAL region and the data pages are disjoint: pager_allocate_page
\* never returns a page whose bytes lie in the WAL region.
C2_AllocatedPageOutsideWalRegion ==
  ghost.op = "allocate" => ~InWalRegion(ghost.rc)

\* C3: when txn_commit returns an error, every page of the dirty set reads
\* back, from disk and through the cache, equal to the image it had before
\* the transaction.
C3_FailedCommitKeepsPreImage ==
  (ghost.op = "commit" /\ ghost.rc # AMIDB_OK) =>
    \A p \in ghost.dirty :
      /\ disk[p] = ghost.pre[p]
      /\ ReadBack(Cur, p) = ghost.pre[p]

\* C4: after txn_commit returns AMIDB_OK, every page of the dirty set holds
\* on disk the image the cache held at commit time, and its cache entry is
\* clean with txn_id 0.
C4_CommitCheckpointsEveryPage ==
  (ghost.op = "commit" /\ ghost.rc = AMIDB_OK) =>
    \A p \in ghost.dirty :
      /\ disk[p] = OnDisk(ghost.post[p])
      /\ FindEntry(Cur, p) # 0
      /\ entries[FindEntry(Cur, p)].state = CACHE_ENTRY_CLEAN
      /\ entries[FindEntry(Cur, p)].txn_id = 0

\* C5 as stated: after txn_abort of an active transaction, every page of the
\* dirty set reads back through the cache equal to its image on disk before
\* the transaction, and its entry is clean and untagged.
C5_AbortLeavesCleanEntries ==
  ghost.op = "abort" =>
    \A p \in ghost.dirty :
      /\ ReadBack(Cur, p) = ghost.pre[p]
      /\ FindEntry(Cur, p) # 0
      /\ entries[FindEntry(Cur, p)].state = CACHE_ENTRY_CLEAN
      /\ entries[FindEntry(Cur, p)].txn_id = 0

\* C5 amended: after txn_abort of an active transaction no frame carries a
\* txn_id; a page of the dirty set whose reload succeeded has a clean entry
\* holding the image the disk held before the transaction, which is still
\* the image on disk; a page whose reload failed has no valid entry.
C5_AbortReloadsOrInvalidates ==
  ghost.op = "abort" =>
    /\ \A f \in DOMAIN entries : entries[f].txn_id # 0 =>
         entries[f].page_num \notin ghost.dirty
    /\ \A p \in ghost.dirty :
         LET e == FindEntry(Cur, p)
         IN  IF p \in ghost.failed \/ ~disk[p].ok
               THEN e = 0
             ELSE /\ e # 0
                  /\ entries[e].state = CACHE_ENTRY_CLEAN
                  /\ entries[e].txn_id = 0
                  /\ disk[p] = ghost.pre[p]
                  /\ entries[e].data = ghost.pre[p].body

\* an abort has reloaded a page the transaction had changed
C5_Witness ==
  /\ ghost.op = "abort"
  /\ \E p \in ghost.dirty :
       /\ p \notin ghost.failed
       /\ FindEntry(Cur, p) # 0
       /\ entries[FindEntry(Cur, p)].data = ghost.pre[p].body
       /\ ghost.pre[p].body.node_type = 0
  /\ \E p \in ghost.dirty : p \in ghost.failed

\* C6: after the abort of a transaction that inserted keys into a B+Tree
\* attached to it, btree_search returns for every key the result it returned
\* when the transaction began.
C6_AbortRestoresTreeContent ==
  (ghost.op = "abort" /\ tree.open /\ tree.attached /\ ghost.inserted) =>
    SearchAll(Cur) = ghost.snap

\* C7: when BEGIN, PAGE and COMMIT records of a transaction are on disk, the
\* checkpoint has not run and the file is opened again with the dirty flag
\* set, recovery writes every PAGE image to its home page.
C7_RedoWritesCommittedPages ==
  (/\ ghost.op = "open_after_crash_in_commit"
   /\ ghost.durable
   /\ ghost.checkpointed = 0
   /\ ghost.recovered) =>
    \A p \in ghost.dirty : disk[p].body = ghost.post[p] /\ disk[p].ok

\* C8: recovery never writes the image of a PAGE record whose transaction
\* has no valid COMMIT record in the log: after the file is opened again,
\* every page covered only by a transaction whose COMMIT record had not
\* reached the disk holds the image it had before the transaction.
C8_UncommittedPagesKeepPreImage ==
  (ghost.op = "open_after_crash_in_commit" /\ ~ghost.durable) =>
    \A p \in ghost.dirty : disk[p] = ghost.pre[p]

\* a record recovery must stop at: bad magic, bad checksum, or an extent
\* past the end of the region
BadRecord(r) ==
  \/ ~r.magic_ok
  \/ ~r.crc_ok
  \/ r.off + r.size > WAL_REGION_SIZE

\* C9: both passes of wal_recover stop at the first record whose magic
\* mismatches, whose checksum fails or which extends past the region: no
\* PAGE record at or after such a record is written to the data file.
C9_NothingAppliedAfterBadRecord ==
  (ghost.op = "open" /\ ghost.recovered) =>
    \A off \in ghost.applied :
      ~\E b \in ghost.scanned : b.off <= off /\ BadRecord(b)

\* C10: an entry of the cache that carries a non-zero txn_id is never
\* evicted and never written to disk by cache_flush, by the write-back of an
\* eviction or by cache_destroy.
C10_TaggedEntriesStayInCache ==
  \A x \in ghost.evicted \cup ghost.wrote : x.txn_id = 0

\* cache_flush has written a dirty page and passed over a dirty page that
\* carries a txn_id
C10_Witness ==
  /\ ghost.op = "flush"
  /\ ghost.wrote # {}
  /\ \E f \in DOMAIN entries :
       entries[f].state = CACHE_ENTRY_DIRTY /\ entries[f].txn_id # 0

\* C11: txn_begin returns AMIDB_OK only when the transaction was Idle; in
\* any other state it returns AMIDB_BUSY and leaves the state, the txn_id,
\* the dirty list and the WAL buffer as they were.
C11_BeginOnlyFromIdle ==
  ghost.op = "begin_call" =>
    /\ ghost.rc = AMIDB_OK => ghost.was.txn.state = TXN_STATE_IDLE
    /\ ghost.was.txn.state # TXN_STATE_IDLE =>
         /\ ghost.rc = AMIDB_BUSY
         /\ txn = ghost.was.txn
         /\ wal = ghost.was.wal

\* txn_begin was called while a transaction with a dirty page was Active
C11_Witness ==
  /\ ghost.op = "begin_call"
  /\ ghost.rc = AMIDB_BUSY
  /\ ghost.was.txn.state = TXN_STATE_ACTIVE
  /\ ghost.was.txn.dirty_pages # <<>>

\* C12: txn_commit and txn_abort called in a state other than Active return
\* an error and change neither the transaction, the cache nor the WAL
\* buffer.
C12_CommitAbortOnlyFromActive ==
  (/\ ghost.op \in {"commit_call", "abort_call"}
   /\ ghost.was.txn.state # TXN_STATE_ACTIVE) =>
    /\ ghost.rc # AMIDB_OK
    /\ txn = ghost.was.txn
    /\ entries = ghost.was.entries
    /\ wal = ghost.was.wal

\* what btree_search answers for key: the value found, 0 for not found
Lookup(s, key) ==
  IF BtreeSearch(s, key).rc = 0 THEN BtreeSearch(s, key).value ELSE 0

\* C13: the B+Tree behaves as a map: after any sequence of inserts and
\* deletes btree_search of a key returns the value of the most recent
\* successful insert of the key that no successful delete followed, and
\* reports not found when there is none.
C13_TreeIsMap ==
  tree.open => \A k \in MapKeys : Lookup(Cur, k) = ghost.map[k]

\* C14: after any sequence of inserts and deletes every node of the tree
\* other than the root holds at least BTREE_MIN_KEYS keys.
C14_MinKeys ==
  tree.open =>
    \A p \in TreePages(Cur) \ {tree.root_page} :
      NodeImage(Cur, p).num_keys >= BTREE_MIN_KEYS

\* the keys held by the nodes of the subtree under page p
SubtreeKeys(s, p) ==
  UNION {SeqToSet(NodeImage(s, q).keys) :
           q \in Descendants(s, {p}, Cardinality(DOMAIN s.disk))}

\* keys[0..num_keys-1] of the node are strictly increasing
KeysIncrease(node) ==
  \A i \in 1..node.num_keys - 1 : node.keys[i] < node.keys[i + 1]

\* every key under children[i] is below keys[i] and not below keys[i-1]
ChildrenBetweenKeys(s, node) ==
  \A i \in 0..node.num_keys :
    \A k \in SubtreeKeys(s, Child(node, i)) :
      /\ i < node.num_keys => k < node.keys[i + 1]
      /\ i > 0 => k >= node.keys[i]

\* C15: after any sequence of inserts and deletes the keys of every node are
\* strictly increasing, and for every internal node every key in the
\* subtree under children[i] is less than keys[i] (for i < num_keys) and
\* greater than or equal to keys[i-1] (for i > 0).
C15_KeysOrdered ==
  tree.open =>
    \A p \in TreePages(Cur) :
      /\ KeysIncrease(NodeImage(Cur, p))
      /\ NodeImage(Cur, p).node_type = BTREE_NODE_INTERNAL
           => ChildrenBetweenKeys(Cur, NodeImage(Cur, p))

\* the keys held by the leaves of the tree
StoredKeys(s) ==
  UNION {SeqToSet(NodeImage(s, p).keys) :
           p \in {q \in TreePages(s) :
                    NodeImage(s, q).node_type = BTREE_NODE_LEAF}}

\* C16: after any sequence of inserts and deletes the iteration of a cursor
\* from the leftmost leaf along next_leaf returns every stored key exactly
\* once, in strictly increasing order, then ends, and the number of keys
\* it returns equals num_entries.
C16_LeafChain ==
  tree.open =>
    /\ \A i \in 1..Len(CursorWalk(Cur)) - 1 :
         CursorWalk(Cur)[i] < CursorWalk(Cur)[i + 1]
    /\ SeqToSet(CursorWalk(Cur)) = StoredKeys(Cur)
    /\ Len(CursorWalk(Cur)) = tree.num_entries

\* the keys inserted with success and not deleted since
Present == {k \in MapKeys : ghost.map[k] # 0}

\* C17: the num_entries of a tree handle, obtained from btree_create or
\* from btree_open on an existing root, is the number of successful
\* inserts minus the number of successful deletes since the tree was
\* created; an insert that overwrites the value of a present key adds no
\* entry and is not counted.
C17_NumEntries == tree.open => tree.num_entries = Cardinality(Present)

\* the entries for key in the leaves of the tree
EntriesFor(s, key) ==
  {<<p, i>> \in TreePages(s) \X (1..BTREE_ORDER) :
     /\ NodeImage(s, p).node_type = BTREE_NODE_LEAF
     /\ i <= NodeImage(s, p).num_keys
     /\ NodeImage(s, p).keys[i] = key}

\* C18: btree_insert of a key that is present only overwrites the value of
\* the key: the tree keeps exactly one entry for the key, and num_entries,
\* the structure of the nodes and the set of allocated pages are what they
\* were before the call, also when the leaf that holds the key is full.
C18_UpsertOnlyOverwrites ==
  (ghost.op = "insert" /\ ghost.had) =>
    /\ ghost.rc = 0
    /\ Lookup(Cur, ghost.key) = ghost.value
    /\ Cardinality(EntriesFor(Cur, ghost.key)) = 1
    /\ Frame(Cur) = ghost.frame

\* C19: when a B+Tree operation called with an attached Active transaction
\* returns, every node page it changed is in the dirty list of the
\* transaction and its cache entry is dirty and carries the txn_id of the
\* transaction.
C19_ChangedPagesTracked ==
  (ghost.op \in {"insert", "delete"} /\ ghost.active) =>
    \A p \in ghost.changed :
      /\ p \in SeqToSet(txn.dirty_pages)
      /\ FindEntry(Cur, p) # 0
      /\ entries[FindEntry(Cur, p)].state = CACHE_ENTRY_DIRTY
      /\ entries[FindEntry(Cur, p)].txn_id = txn.txn_id

\* a step of a running session that changes the database file leaves the
\* dirty flag set in the header on the disk
DirtyFlagSetByMutation ==
  (running /\ running' /\ <<disk', dhdr', region'>> # <<disk, dhdr, region>>)
    => dhdr'.flags = DB_FLAG_DIRTY

\* the dirty flag of the header on the disk is cleared by pager_close with
\* wal_head = 0 or by pager_open after wal_recover has succeeded
DirtyFlagCleared ==
  (dhdr.flags = DB_FLAG_DIRTY /\ dhdr'.flags # DB_FLAG_DIRTY)
    => \/ running /\ ~running' /\ ghost'.op = "close" /\ dhdr'.wal_head = 0
       \/ ~running /\ running' /\ ghost'.recovered

\* C20: in a writable session the header on the disk carries the dirty flag
\* no later than the first change of the database, for a new and for an
\* existing database alike, and the flag is cleared only by a clean close
\* without pending WAL or by a completed recovery.
C20_DirtyFlag == [][DirtyFlagSetByMutation /\ DirtyFlagCleared]_vars

\* the data pages after the process has ended in state s and the file has
\* been opened again
ReopenedDisk(s) == PagerOpen(NoSession(s)).s.disk

\* C21: when txn_commit has returned AMIDB_OK and the checkpoint write of a
\* page of the dirty set has failed, the committed image of the page is not
\* lost: the WAL has not been reset, and the next open of the file puts the
\* image on the page.
C21_FailedCheckpointKeepsImage ==
  (ghost.op = "commit" /\ ghost.rc = AMIDB_OK) =>
    \A p \in ghost.dirty :
      disk[p] # OnDisk(ghost.post[p]) =>
        /\ wal.wal_head # 0
        /\ ReopenedDisk(Cur)[p] = OnDisk(ghost.post[p])

\* the records of the WAL buffer, each with its byte offset in the buffer
BufferLog(w) ==
  {AtOffset(w.buffer[i], SumSizes(SubSeq(w.buffer, 1, i - 1))) :
     i \in 1..Len(w.buffer)}

\* in the log recs every COMMIT record comes after the BEGIN record of its
\* transaction, and the PAGE records of the transaction lie between the two
LogOrdered(recs) ==
  \A c \in recs :
    c.type = WAL_COMMIT =>
      \E b \in recs :
        /\ b.type = WAL_BEGIN
        /\ b.txn_id = c.txn_id
        /\ b.off < c.off
        /\ \A r \in recs :
             (r.type = WAL_PAGE /\ r.txn_id = c.txn_id) =>
               (b.off < r.off /\ r.off < c.off)

\* the log recs holds, before the COMMIT record of transaction id, a PAGE
\* record with the image of every page in pages
PagesLogged(recs, id, pages, images) ==
  \E c \in recs :
    /\ c.type = WAL_COMMIT
    /\ c.txn_id = id
    /\ \A p \in pages :
         \E r \in recs :
           /\ r.type = WAL_PAGE
           /\ r.txn_id = id
           /\ r.page_num = p
           /\ r.data = images[p]
           /\ r.off < c.off

\* C22: in the WAL buffer and in the WAL region on disk up to wal_head,
\* every COMMIT record is preceded by the BEGIN record of its transaction
\* and by the PAGE records of the transaction, written in that order; when
\* wal_flush has succeeded in txn_commit, the region holds a PAGE record for
\* every page of the dirty set before the COMMIT record.
C22_CommitAfterBeginAndPages ==
  /\ LogOrdered(BufferLog(wal))
  /\ LogOrdered(ghost.flushed)
  /\ (ghost.op = "commit" /\ ghost.rc = AMIDB_OK) =>
       PagesLogged(ghost.flushed, wal.current_txn_id, ghost.dirty, ghost.post)

\* the second transaction of the session has committed two pages, and the
\* WAL buffer it flushed held the records of the first transaction as well
C22_Witness ==
  /\ ghost.op = "commit"
  /\ ghost.rc = AMIDB_OK
  /\ Cardinality(ghost.dirty) = 2
  /\ \E c \in ghost.flushed : c.type = WAL_COMMIT /\ c.txn_id = 1
  /\ \E c \in ghost.flushed : c.type = WAL_COMMIT /\ c.txn_id = 2

\* the data pages after pager_close in state s and the next pager_open
ClosedDisk(s) == PagerOpen(NoSession(CloseSession(s))).s.disk

\* C23: commits are serial and cumulative: after each txn_commit that
\* returned AMIDB_OK, and after a close and reopen that follow it, every
\* page holds in the file the image given to it by the last committed
\* transaction that wrote it.
C23_CommitsCumulative ==
  (ghost.op = "commit" /\ ghost.rc = AMIDB_OK) =>
    \A p \in Pages :
      ghost.committed[p].ok =>
        /\ disk[p] = ghost.committed[p]
        /\ ClosedDisk(Cur)[p] = ghost.committed[p]

\* C24: pager_open of a writable database whose header on disk carries the
\* dirty flag runs wal_recover before it returns, and when the recovery has
\* completed, also for an empty WAL or one that ends at a corrupt record,
\* the open succeeds and the header on disk has the dirty flag clear and
\* wal_head = wal_tail = 0.
C24_DirtyOpenRecovers ==
  [][(~running /\ running' /\ dhdr.flags = DB_FLAG_DIRTY) =>
       /\ ghost'.recovered
       /\ ghost'.rc = 0
       /\ dhdr'.flags = 0
       /\ dhdr'.wal_head = 0
       /\ dhdr'.wal_tail = 0]_vars

\* a file with the dirty flag has been opened whose WAL, below the wal_head
\* of the header, held a record with a bad checksum
C24_Witness ==
  /\ running
  /\ ghost.op = "open"
  /\ ghost.recovered
  /\ ghost.head > 0
  /\ \E r \in ghost.scanned : r.off < ghost.head /\ ~r.crc_ok
  /\ dhdr.flags = 0

\* frames that hold a page
ValidFrames(s) ==
  {f \in DOMAIN s.entries : s.entries[f].state # CACHE_ENTRY_INVALID}

\* no frame is free and every frame is pinned or belongs to a transaction
AllHeld(s) ==
  \A f \in DOMAIN s.entries :
    /\ s.entries[f].state # CACHE_ENTRY_INVALID
    /\ (s.entries[f].pin_count > 0 \/ s.entries[f].txn_id # 0)

NoDuplicates(seq) ==
  \A i, j \in 1..Len(seq) : seq[i] = seq[j] => i = j

\* C26: txn_add_dirty_page keeps the dirty list free of duplicates; adding a
\* page that is in the list returns AMIDB_OK and changes nothing; adding a
\* page that is not in the list while the list holds 64 pages returns
\* AMIDB_FULL and leaves the list as it was; any other add appends the page
C26_AddDirtyPage ==
  [][ghost'.op = "add" =>
       /\ NoDuplicates(txn'.dirty_pages)
       /\ IF ghost'.page \in SeqToSet(txn.dirty_pages)
            THEN ghost'.rc = AMIDB_OK /\ txn' = txn
          ELSE IF Len(txn.dirty_pages) = TXN_MAX_DIRTY
            THEN ghost'.rc = AMIDB_FULL
                 /\ txn'.dirty_pages = txn.dirty_pages
          ELSE ghost'.rc = AMIDB_OK
               /\ txn'.dirty_pages = Append(txn.dirty_pages, ghost'.page)]_vars

\* a new page was refused with 64 pages in the list
C26_Witness ==
  /\ ghost.op = "add"
  /\ ghost.rc = AMIDB_FULL
  /\ Len(txn.dirty_pages) = TXN_MAX_DIRTY
  /\ ghost.page \notin SeqToSet(txn.dirty_pages)
  /\ txn.state = TXN_STATE_ACTIVE

\* C27: a successful pager_allocate_page returns the lowest page >= 1 whose
\* bit was clear, a page no caller holds; in every session bit i is set
\* exactly for page 0 and the pages that were handed out and not freed;
\* pager_free_page(0) is refused
C27_BitmapIffAllocated ==
  [][/\ running' => hdr'.bitmap = ghost'.owned \cup {0}
     /\ (ghost'.op = "allocate" /\ ghost'.rc = 0) =>
          /\ ghost'.page = Min(FreePages(Cur))
          /\ ghost'.page >= 1
          /\ ghost'.page \notin ghost.owned
          /\ ghost'.page \in hdr'.bitmap
     /\ (ghost'.op = "free" /\ ghost'.page = 0) => ghost'.rc = -1]_vars

\* C28: pager_open of a file whose first four bytes are not the magic
\* returns -1 in either mode and leaves the file as it was
C28_WrongMagicRejected ==
  [][(ghost'.op \in {"open_rw", "open_ro"} /\ dhdr.magic # AMIDB_MAGIC) =>
       /\ ghost'.rc = -1
       /\ ~running'
       /\ dhdr' = dhdr
       /\ disk' = disk]_vars

\* C29: the on-disk WAL region never holds a COMMIT record of a transaction
\* that was aborted or whose commit returned an error, and a recovery run
\* on the file as it is would write no PAGE record of such a transaction
C29_DeadNeverDurable ==
  /\ \A r \in region : r.type = WAL_COMMIT => r.txn_id \notin ghost.dead
  /\ \A r \in region :
       r.off \in PagerOpen(NoSession(Cur)).applied => r.txn_id \notin ghost.dead

\* C30: after a begin, commit or abort that left the transaction manager
\* Idle no cache entry carries a non-zero txn_id
C30_IdleNoTags ==
  (running /\ ghost.op \in {"begin", "commit", "abort"}
           /\ txn.state = TXN_STATE_IDLE) => TaggedPages(Cur) = {}

\* C31: with every file operation succeeding, txn_commit of an Active
\* transaction with at most 64 dirty pages returns AMIDB_OK
C31_CommitFitsWal ==
  (ghost.op = "commit" /\ Cardinality(ghost.dirty) <= TXN_MAX_DIRTY) =>
    ghost.rc = AMIDB_OK

\* C32: wal_recover, once started, comes to its end for every content of
\* the WAL region and every header wal_head
C32_RecoveryTerminates ==
  (ghost.scan.pass = 1) ~> (ghost.scan.pass = 4)

\* C33: after the abort of a transaction on an attached tree the allocation
\* bitmap, in memory and on disk, is the one the transaction found when it
\* began, and every page of the tree is allocated
C33_AbortRestoresBitmap ==
  (ghost.op = "abort" /\ tree.open /\ tree.attached) =>
    /\ hdr.bitmap = ghost.bits
    /\ dhdr.bitmap = ghost.bits
    /\ TreePages(Cur) \subseteq hdr.bitmap

\* C34: in an open tree the root has parent_page 0 and every other node
\* has as parent_page the page of the internal node that lists it among its
\* children
C34_ParentPointers ==
  tree.open =>
    /\ NodeImage(Cur, tree.root_page).parent = 0
    /\ \A p \in TreePages(Cur) : \A c \in ChildPages(Cur, p) :
         NodeImage(Cur, c).parent = p

\* C35: in an open tree that is the only client of the pager, the pages
\* reached from the root are exactly the allocated pages other than page 0,
\* and no child pointer or next_leaf of a node of the tree names a page that
\* is not allocated
C35_ReachableIsAllocated ==
  tree.open =>
    /\ TreePages(Cur) = hdr.bitmap \ {0}
    /\ \A p \in TreePages(Cur) :
         /\ ChildPages(Cur, p) \subseteq hdr.bitmap
         /\ NodeImage(Cur, p).next_leaf \in (hdr.bitmap \ {0}) \cup {0}

\* C36: every cache entry in state clean holds the body the disk holds for
\* its page
C36_CleanEqualsDisk ==
  running =>
    \A f \in DOMAIN entries :
      entries[f].state = CACHE_ENTRY_CLEAN =>
        /\ disk[entries[f].page_num].ok
        /\ disk[entries[f].page_num].body = entries[f].data

(***************************************************************************)
(* C37: filling and splitting the first leaf                               *)
(***************************************************************************)
\* the node on the root page of the open tree
RootNode == NodeImage(Cur, tree.root_page)

\* the numbers of keys of the children of the root
RootChildKeys == {NodeImage(Cur, c).num_keys : c \in ChildPages(Cur, tree.root_page)}

\* the root is the only node of the tree, a leaf with n keys
SingleLeaf(n) ==
  /\ tree.open
  /\ RootNode.node_type = BTREE_NODE_LEAF
  /\ RootNode.num_keys = n

\* the numbers of keys of the first and of the second child of the root
RootChildCounts ==
  <<NodeImage(Cur, Child(RootNode, 0)).num_keys,
    NodeImage(Cur, Child(RootNode, 1)).num_keys>>

\* what split_leaf_node and the insert that follows leave in the old and in
\* the new leaf: the old leaf keeps BTREE_ORDER / 2 keys, the new one gets
\* the others, and the new key goes to one of them. BTREE_ORDER is even in
\* btree.h, so the two numbers are BTREE_ORDER / 2 and BTREE_ORDER / 2 + 1
SplitCounts ==
  {<<BTREE_ORDER \div 2 + 1, BTREE_ORDER - BTREE_ORDER \div 2>>,
   <<BTREE_ORDER \div 2, BTREE_ORDER - BTREE_ORDER \div 2 + 1>>}

\* the root is an internal node with one key over two leaves, one with
\* BTREE_ORDER / 2 keys and one with BTREE_ORDER / 2 + 1
SplitInTwo ==
  /\ tree.open
  /\ RootNode.node_type = BTREE_NODE_INTERNAL
  /\ RootNode.num_keys = 1
  /\ RootNode.parent = 0
  /\ Cardinality(ChildPages(Cur, tree.root_page)) = 2
  /\ \A c \in ChildPages(Cur, tree.root_page) :
       /\ NodeImage(Cur, c).node_type = BTREE_NODE_LEAF
       /\ NodeImage(Cur, c).parent = tree.root_page
  /\ RootChildCounts \in SplitCounts
  /\ (BTREE_ORDER % 2 = 0 =>
        RootChildKeys = {BTREE_ORDER \div 2, BTREE_ORDER \div 2 + 1})

\* btree_insert has stored a key that the tree did not hold
InsertedNewKey ==
  /\ ghost'.op = "insert"
  /\ ghost'.rc = 0
  /\ ~ghost'.had

\* C37: an insert of a new key into a tree that is a single leaf with fewer
\* than BTREE_ORDER keys leaves the tree a single leaf on the same page with
\* one key more, so BTREE_ORDER distinct keys fill the first leaf without a
\* split; an insert of a new key into a single leaf with BTREE_ORDER keys
\* splits it into two leaves with BTREE_ORDER / 2 and BTREE_ORDER / 2 + 1
\* keys under a new internal root
C37_FillThenSplit == [][\A n \in 0..BTREE_ORDER : (InsertedNewKey /\ SingleLeaf(n)) => IF n < BTREE_ORDER THEN SingleLeaf(n + 1)' /\ tree'.root_page = tree.root_page ELSE SplitInTwo' /\ tree'.root_page # tree.root_page]_vars

\* the third distinct key of a tree created empty has split the first leaf
C37_Witness == ghost.op = "insert" /\ ghost.rc = 0 /\ ~ghost.had /\ ghost.calls = BTREE_ORDER + 1 /\ tree.num_entries = BTREE_ORDER + 1 /\ SplitInTwo

(***************************************************************************)
(* C38: the root after a delete                                            *)
(***************************************************************************)
\* the root page holds an internal node without keys
EmptyInternalRoot == RootNode.node_type = BTREE_NODE_INTERNAL /\ RootNode.num_keys = 0

\* C38: when btree_delete has returned, the node on tree->root_page is not
\* an internal node with zero keys and its parent_page is 0; a root_page
\* that the delete changed names a child of the root it replaced
C38_RootCollapsed == [][(tree.open /\ ghost'.op = "delete") => /\ ~EmptyInternalRoot' /\ RootNode'.parent = 0 /\ (tree'.root_page # tree.root_page => tree'.root_page \in ChildPages(Cur, tree.root_page))]_vars

\* a delete has emptied the internal root: its page is free, its image with
\* zero keys is still cached, and the root is now the former child
C38_Witness == tree.open /\ ghost.op = "delete" /\ ghost.rc = 0 /\ RootNode.parent = 0 /\ \E f \in DOMAIN entries : /\ entries[f].page_num \notin hdr.bitmap /\ DeserializeNode(entries[f].data).node_type = BTREE_NODE_INTERNAL /\ DeserializeNode(entries[f].data).num_keys = 0 /\ tree.root_page \in {Child(DeserializeNode(entries[f].data), 0)}

(***************************************************************************)
(* C39: pins of readers next to a transaction                              *)
(***************************************************************************)
\* the history after cache_get_page of a reader returned g
HoldGot(p, g) ==
  /\ Install(g.s)
  /\ ghost' = [Step("get", g.rc) EXCEPT
                 !.page = p,
                 !.held[p] = IF g.rc = 0 THEN @ + 1 ELSE @]

\* cache_get_page by a reader that keeps the pin
HoldGet(p) ==
  /\ running
  /\ p \in hdr.bitmap
  /\ ghost.held[p] < HoldMax
  /\ HoldGot(p, CacheGetPage(Cur, p))
  /\ UNCHANGED running

\* cache_unpin by a reader that holds a pin on the page
HoldRelease(p) ==
  /\ running
  /\ ghost.held[p] > 0
  /\ Install(CacheUnpin(Cur, p))
  /\ ghost' = [Step("unpin", 0) EXCEPT !.page = p, !.held[p] = @ - 1]
  /\ UNCHANGED running

\* readers that keep pins on the pages of a B+Tree changed in transactions
NextHold ==
  \/ CreateTree
  \/ SetTransaction
  \/ BeginTreeTxn
  \/ \E k \in Keys, v \in 1..MaxValue : Insert(k, v)
  \/ TreeCommit
  \/ TreeAbort
  \/ \E p \in 1..HoldMaxPage : HoldGet(p)
  \/ \E p \in 1..HoldMaxPage : HoldRelease(p)

SpecHold == InitTree /\ [][NextHold]_vars

\* C39: between the calls the pin_count of every frame that holds a page
\* equals the number of pins readers still hold on that page; the
\* transaction holds none of its own then, so a commit or an abort takes no
\* reader's pin away
C39_PinCountIsHeld == running => \A f \in DOMAIN entries : entries[f].state # CACHE_ENTRY_INVALID => entries[f].pin_count = ghost.held[entries[f].page_num]

(***************************************************************************)
(* C40: btree_get_stats                                                    *)
(***************************************************************************)
\* the divisor of the estimate of the internal nodes
StatsBranching == 32

RECURSIVE StatsDescend(_, _, _, _)
\* the loop of btree_get_stats that follows children[0] from page down to a
\* leaf: the page it stops on and the nodes it has read; a page that
\* cache_get_page does not deliver ends the loop
StatsDescend(s, page, levels, fuel) ==
  IF fuel = 0 THEN [s |-> s, page |-> page, levels |-> levels]
  ELSE IF CacheGetPage(s, page).rc # 0
    THEN [s |-> CacheGetPage(s, page).s, page |-> page, levels |-> levels]
  ELSE IF NodeOf(CacheGetPage(s, page).s, page).node_type = BTREE_NODE_LEAF
    THEN [s |-> CacheUnpin(CacheGetPage(s, page).s, page), page |-> page,
          levels |-> levels + 1]
  ELSE IF Child(NodeOf(CacheGetPage(s, page).s, page), 0) = 0
    THEN [s |-> CacheUnpin(CacheGetPage(s, page).s, page), page |-> 0,
          levels |-> levels + 1]
  ELSE StatsDescend(CacheUnpin(CacheGetPage(s, page).s, page),
                    Child(NodeOf(CacheGetPage(s, page).s, page), 0),
                    levels + 1, fuel - 1)

RECURSIVE StatsLeaves(_, _, _, _)
\* the loop of btree_get_stats over the leaf chain from next_leaf on
StatsLeaves(s, next_leaf, leaf_count, fuel) ==
  IF next_leaf = 0 \/ fuel = 0 THEN [s |-> s, leaf_count |-> leaf_count]
  ELSE IF CacheGetPage(s, next_leaf).rc # 0
    THEN [s |-> CacheGetPage(s, next_leaf).s, leaf_count |-> leaf_count + 1]
  ELSE StatsLeaves(CacheUnpin(CacheGetPage(s, next_leaf).s, next_leaf),
                   NodeOf(CacheGetPage(s, next_leaf).s, next_leaf).next_leaf,
                   leaf_count + 1, fuel - 1)

\* the walks of btree_get_stats visit no more pages than the file has
StatsFuel(s) == Cardinality(DOMAIN s.disk) + 1

\* the height part of btree_get_stats, skipped when height is NULL
StatsHeight(s, want_height) ==
  IF want_height THEN StatsDescend(s, s.tree.root_page, 0, StatsFuel(s))
  ELSE [s |-> s, page |-> 0, levels |-> 0]

\* the estimate of btree_get_stats from tree_height and leaf_count
StatsEstimate(tree_height, l) ==
  [s |-> l.s, height |-> tree_height, num_entries |-> l.s.tree.num_entries,
   num_nodes |-> IF tree_height = 1 THEN l.leaf_count
                 ELSE l.leaf_count + l.leaf_count \div StatsBranching]

\* the num_nodes part of btree_get_stats after the walk to the first leaf
StatsCount(tree_height, d) ==
  StatsEstimate(tree_height, StatsLeaves(d.s, d.page, 0, StatsFuel(d.s)))

\* the num_nodes part of btree_get_stats after the height part h
StatsNodes(h) ==
  StatsCount(h.levels,
             StatsDescend(h.s, h.s.tree.root_page, 0, StatsFuel(h.s)))

\* btree_get_stats with num_entries and num_nodes, and with height or NULL
BtreeGetStats(s, want_height) == StatsNodes(StatsHeight(s, want_height))

\* the state and the history after btree_get_stats returned r
MapCounted(r) ==
  /\ Install(r.s)
  /\ ghost' = [MapStep("stats", 0, 0, ghost.map) EXCEPT
                 !.stats = [num_entries |-> r.num_entries,
                            height |-> r.height, num_nodes |-> r.num_nodes],
                 !.nodes = TreePages(Cur)]

\* btree_get_stats on the open tree
MapStats(want_height) ==
  /\ running
  /\ tree.open
  /\ ghost.calls < MapMaxCalls
  /\ MapCounted(BtreeGetStats(Cur, want_height))
  /\ UNCHANGED running

\* a B+Tree loaded, changed by inserts and deletes, and measured
NextStats ==
  \/ \E n \in 0..MapMaxKey, reverse \in BOOLEAN : MapCreate(n, reverse)
  \/ \E k \in MapKeys : MapInsert(k, 1)
  \/ \E k \in MapKeys : MapDelete(k)
  \/ \E want_height \in BOOLEAN : MapStats(want_height)

SpecStats == InitMap /\ [][NextStats]_vars

\* C40: the num_nodes that btree_get_stats reports is the number of pages,
\* internal nodes and leaves, reached from the root through child pointers
C40_NumNodesExact == ghost.op = "stats" => ghost.stats.num_nodes = Cardinality(ghost.nodes)

====
